---------------------------- MODULE Spec2Model ----------------------------
(***************************************************************************)
(* The Linger interpreter (src/src/interpreter.rs) as an abstract machine. *)
(*                                                                         *)
(* interp_statement and interp_expression are mutually recursive Rust      *)
(* functions.  The machine makes their recursion explicit: `ctl` is the    *)
(* call in progress (or the value it has just returned), `kont` is the     *)
(* stack of suspended callers, one frame per pending recursive call, each  *)
(* frame holding the locals that caller still needs.  One action is one    *)
(* match arm up to its next recursive call, or the rest of an arm after a  *)
(* recursive call has returned.  `heap` holds the scopes of every          *)
(* Environment, `out` is the text written by print!.  `overflow_checks`    *)
(* is the build: whether integer arithmetic panics on overflow (rustc's    *)
(* overflow-checks, on in the dev profile) or wraps.                       *)
(***************************************************************************)
EXTENDS Integers, Sequences, FiniteSets, TLC

VARIABLES prog, overflow_checks, ctl, kont, heap, out

vars == <<prog, overflow_checks, ctl, kont, heap, out>>

----------------------------------------------------------------------------
(* Core AST: desugar.rs Statement / Expr, with the shapes interpreter.rs   *)
(* matches on (Expr::Proc holds one body statement).                       *)

None == [t |-> "None"]

E_Num(n) == [t |-> "Num", n |-> n]
E_Bool(b) == [t |-> "Bool", b |-> b]
E_Str(s) == [t |-> "Str", s |-> s]
E_Var(id) == [t |-> "Var", id |-> id]
E_Binary(op, l, r) == [t |-> "Binary", op |-> op, l |-> l, r |-> r]
E_Unary(op, e) == [t |-> "Unary", op |-> op, e |-> e]
E_PrimitiveCall(args) == [t |-> "PrimitiveCall", args |-> args]
E_Call(f, args) == [t |-> "Call", f |-> f, args |-> args]
E_Proc(params, body) == [t |-> "Proc", params |-> params, body |-> body]

S_Expr(e) == [t |-> "Expr", e |-> e]
S_Let(id, e) == [t |-> "Let", id |-> id, e |-> e]
S_Assign(id, e) == [t |-> "Assign", id |-> id, e |-> e]
S_If(c, th, el) == [t |-> "If", c |-> c, th |-> th, el |-> el]
S_While(c, body) == [t |-> "While", c |-> c, body |-> body]
S_Block(ss) == [t |-> "Block", ss |-> ss]
S_Return(e) == [t |-> "Return", e |-> e]
S_Break == [t |-> "Break"]
S_Continue == [t |-> "Continue"]

Procedure(name, params, body) == [name |-> name, params |-> params, body |-> body]
Program(procedures, main) == [procedures |-> procedures, main |-> main]

----------------------------------------------------------------------------
(* Values, control flow and runtime errors.                                *)

Num(n) == [k |-> "Num", n |-> n]
Bool(b) == [k |-> "Bool", b |-> b]
Str(s) == [k |-> "Str", s |-> s]
Lambda(params, body, env) == [k |-> "Lambda", params |-> params, body |-> body, env |-> env]
Void == [k |-> "Void"]

ControlFlow == {"Return", "Normal", "Break", "Continue"}

UnknownVariable(id) == [e |-> "UnknownVariable", id |-> id]
BadArg(v) == [e |-> "BadArg", v |-> v]
ArgMismatch(name, actual, expected) == [e |-> "ArgMismatch", name |-> name, actual |-> actual, expected |-> expected]
BreakNotInLoop == [e |-> "BreakNotInLoop"]
ContinueNotInLoop == [e |-> "ContinueNotInLoop"]

----------------------------------------------------------------------------
(* Environment (crate::environment, not among the sources): a chain of     *)
(* scopes, each a name -> Value map with a reference to its parent.  A     *)
(* scope is an index into `heap`; NoEnv marks the absence of a parent.     *)

NoEnv == 0
Unbound == [k |-> "Unbound"]

EmptyVars == [x \in {} |-> Void]
Scope(parent, scopeVars) == [parent |-> parent, vars |-> scopeVars]

\* Environment::new(): a fresh scope with no bindings and no parent.
EnvNew(h) == [heap |-> Append(h, Scope(NoEnv, EmptyVars)), env |-> Len(h) + 1]

\* env.clone(): the clone designates the same scope chain.
EnvClone(env) == env

\* env.update(id, v): insert or overwrite in the scope itself.
EnvUpdate(h, env, id, v) ==
    [h EXCEPT ![env].vars =
        [x \in (DOMAIN h[env].vars) \cup {id} |-> IF x = id THEN v ELSE h[env].vars[x]]]

\* env.get(id): the innermost binding along the chain, or Unbound.
RECURSIVE EnvGet(_, _, _)
EnvGet(h, env, id) ==
    IF env = NoEnv THEN Unbound
    ELSE IF id \in DOMAIN h[env].vars THEN h[env].vars[id]
    ELSE EnvGet(h, h[env].parent, id)

\* the bindings Vec<(String, Value)> as a map; a repeated name keeps its last value
BindingsMap(names, values) ==
    [x \in {names[i] : i \in 1..Len(names)} |->
        values[CHOOSE i \in 1..Len(names) :
                  names[i] = x /\ \A j \in 1..Len(names) : names[j] = x => j <= i]]

\* env.extend(bindings): a new scope, child of env, holding the bindings.
EnvExtend(h, env, names, values) ==
    [heap |-> Append(h, Scope(env, BindingsMap(names, values))), env |-> Len(h) + 1]

----------------------------------------------------------------------------
(* Machine plumbing.                                                       *)

Top(k) == k[Len(k)]
Pop(k) == SubSeq(k, 1, Len(k) - 1)
Push(k, f) == Append(k, f)

\* ctl: a call of interp_statement / interp_expression about to run
CallStatement(env, s, in_loop) == [m |-> "stmt", s |-> s, env |-> env, in_loop |-> in_loop]
CallExpression(env, e) == [m |-> "expr", e |-> e, env |-> env]
\* ctl: what such a call has returned
OkStatement(v, cf) == [m |-> "sret", v |-> v, cf |-> cf]
OkExpression(v) == [m |-> "eret", v |-> v]
\* ctl: the run is over
Err(e) == [m |-> "err", err |-> e]
Done(v) == [m |-> "done", v |-> v]
Abort == [m |-> "abort"]
Start == [m |-> "start"]

Cfg == [ctl |-> ctl, kont |-> kont, heap |-> heap, out |-> out, checks |-> overflow_checks]
Set(c) ==
    /\ ctl' = c.ctl /\ kont' = c.kont /\ heap' = c.heap /\ out' = c.out
    /\ UNCHANGED <<prog, overflow_checks>>

\* the native stack and the memory are finite
MaxKont == 24
MaxHeap == 12
MaxOut == 12
Bounded(c) == Len(c.kont) <= MaxKont /\ Len(c.heap) <= MaxHeap /\ Len(c.out) <= MaxOut

AtStart(c) == Bounded(c) /\ c.ctl.m = "start"
AtStatement(c, t) == Bounded(c) /\ c.ctl.m = "stmt" /\ c.ctl.s.t = t
AtExpression(c, ts) == Bounded(c) /\ c.ctl.m = "expr" /\ c.ctl.e.t \in ts
StatementReturnsTo(c, f) == Bounded(c) /\ c.ctl.m = "sret" /\ c.kont # <<>> /\ Top(c.kont).f = f
ExpressionReturnsTo(c, f) == Bounded(c) /\ c.ctl.m = "eret" /\ c.kont # <<>> /\ Top(c.kont).f = f


----------------------------------------------------------------------------
(* interp_statement, one operator per match arm; an operator named X_k is  *)
(* the rest of arm X once the recursive call it made has returned.         *)

\* Statement::Expr(expr) => interp_expression(env, expr)?
Statement_Expr(c) ==
    [c EXCEPT !.ctl = CallExpression(c.ctl.env, c.ctl.s.e),
              !.kont = Push(c.kont, [f |-> "Expr"])]

\* value => Ok((value, ControlFlow::Normal))
Statement_Expr_k(c) ==
    [c EXCEPT !.ctl = OkStatement(c.ctl.v, "Normal"), !.kont = Pop(c.kont)]

\* Statement::Let(id, new_expr) => interp_expression(env, new_expr)?
Statement_Let(c) ==
    [c EXCEPT !.ctl = CallExpression(c.ctl.env, c.ctl.s.e),
              !.kont = Push(c.kont, [f |-> "Let", id |-> c.ctl.s.id, env |-> c.ctl.env])]

\* env.update(id, new_value); Ok((Value::Void, ControlFlow::Normal))
Statement_Let_k(c) ==
    [c EXCEPT !.heap = EnvUpdate(c.heap, Top(c.kont).env, Top(c.kont).id, c.ctl.v),
              !.ctl = OkStatement(Void, "Normal"),
              !.kont = Pop(c.kont)]

\* Statement::Assign(id, expr) => interp_expression(env, expr)?
Statement_Assign(c) ==
    [c EXCEPT !.ctl = CallExpression(c.ctl.env, c.ctl.s.e),
              !.kont = Push(c.kont, [f |-> "Assign", id |-> c.ctl.s.id, env |-> c.ctl.env])]

\* env.update(id, value); Ok((Value::Void, ControlFlow::Normal))
Statement_Assign_k(c) ==
    [c EXCEPT !.heap = EnvUpdate(c.heap, Top(c.kont).env, Top(c.kont).id, c.ctl.v),
              !.ctl = OkStatement(Void, "Normal"),
              !.kont = Pop(c.kont)]

\* Statement::If(cond_expr, then_statement, else_statement_option)
Statement_If(c) ==
    [c EXCEPT !.ctl = CallExpression(c.ctl.env, c.ctl.s.c),
              !.kont = Push(c.kont, [f |-> "If", th |-> c.ctl.s.th, el |-> c.ctl.s.el,
                                     env |-> c.ctl.env, in_loop |-> c.ctl.in_loop])]

\* the branch an If takes on the value of its condition: the statement to
\* run, or None when no branch is taken
IfBranch(fr, b) == IF b THEN fr.th ELSE fr.el

\* cond_bool known: run the chosen branch as the arm's own result
Statement_If_k(c) ==
    LET fr == Top(c.kont)
        v == c.ctl.v
    IN  IF v.k # "Bool" THEN [c EXCEPT !.ctl = Err(BadArg(v))]
        ELSE IF IfBranch(fr, v.b) # None
             THEN [c EXCEPT !.ctl = CallStatement(fr.env, IfBranch(fr, v.b), fr.in_loop),
                            !.kont = Pop(c.kont)]
             ELSE [c EXCEPT !.ctl = OkStatement(Void, "Normal"), !.kont = Pop(c.kont)]

\* Statement::While(cond_expr, while_block): evaluate the condition
Statement_While(c) ==
    [c EXCEPT !.ctl = CallExpression(c.ctl.env, c.ctl.s.c),
              !.kont = Push(c.kont, [f |-> "WhileCond", c |-> c.ctl.s.c,
                                     body |-> c.ctl.s.body, env |-> c.ctl.env])]

\* cond_bool known: run the body with in_loop = true, or leave the loop
Statement_While_k(c) ==
    LET fr == Top(c.kont)
        v == c.ctl.v
    IN  IF v.k # "Bool" THEN [c EXCEPT !.ctl = Err(BadArg(v))]
        ELSE IF v.b
             THEN [c EXCEPT !.ctl = CallStatement(fr.env, fr.body, TRUE),
                            !.kont = Push(Pop(c.kont), [fr EXCEPT !.f = "WhileBody"])]
             ELSE [c EXCEPT !.ctl = OkStatement(Void, "Normal"), !.kont = Pop(c.kont)]

\* WhileAfterBody with the Break handed on to the enclosing loop
WhileAfterBody_BreakEscapes(v, cf) ==
    CASE cf = "Return" -> [again |-> FALSE, v |-> v, cf |-> "Return"]
      [] cf = "Break" -> [again |-> FALSE, v |-> Void, cf |-> "Break"]
      [] cf = "Normal" -> [again |-> TRUE, v |-> Void, cf |-> "Normal"]
      [] cf = "Continue" -> [again |-> TRUE, v |-> Void, cf |-> "Normal"]

\* WhileAfterBody with a Return taken for the end of an iteration
WhileAfterBody_ReturnIgnored(v, cf) ==
    CASE cf = "Return" -> [again |-> TRUE, v |-> Void, cf |-> "Normal"]
      [] cf = "Break" -> [again |-> FALSE, v |-> Void, cf |-> "Normal"]
      [] cf = "Normal" -> [again |-> TRUE, v |-> Void, cf |-> "Normal"]
      [] cf = "Continue" -> [again |-> TRUE, v |-> Void, cf |-> "Normal"]

\* the match on the body's (value, ControlFlow): leave the loop with a
\* result, or go round again
WhileAfterBody(v, cf) ==
    CASE cf = "Return" -> [again |-> FALSE, v |-> v, cf |-> "Return"]
      [] cf = "Break" -> [again |-> FALSE, v |-> Void, cf |-> "Normal"]
      [] cf = "Normal" -> [again |-> TRUE, v |-> Void, cf |-> "Normal"]
      [] cf = "Continue" -> [again |-> TRUE, v |-> Void, cf |-> "Normal"]

\* the body has returned
Statement_While_body_k(c) ==
    LET fr == Top(c.kont)
        r == WhileAfterBody(c.ctl.v, c.ctl.cf)
    IN  IF r.again
        THEN [c EXCEPT !.ctl = CallExpression(fr.env, fr.c),
                       !.kont = Push(Pop(c.kont), [fr EXCEPT !.f = "WhileCond"])]
        ELSE [c EXCEPT !.ctl = OkStatement(r.v, r.cf), !.kont = Pop(c.kont)]

\* Statement::Return(expr_option)
Statement_Return(c) ==
    IF c.ctl.s.e = None
    THEN [c EXCEPT !.ctl = OkStatement(Void, "Return")]
    ELSE [c EXCEPT !.ctl = CallExpression(c.ctl.env, c.ctl.s.e),
                   !.kont = Push(c.kont, [f |-> "Return"])]

\* Some(expr) => Ok((interp_expression(env, expr)?, ControlFlow::Return))
Statement_Return_k(c) ==
    [c EXCEPT !.ctl = OkStatement(c.ctl.v, "Return"), !.kont = Pop(c.kont)]

\* Statement::Break => Ok((Value::Void, ControlFlow::Break))
Statement_Break(c) == [c EXCEPT !.ctl = OkStatement(Void, "Break")]

\* Statement::Continue => Ok((Value::Void, ControlFlow::Continue))
Statement_Continue(c) == [c EXCEPT !.ctl = OkStatement(Void, "Continue")]

\* Statement_Block running its statements in a scope of its own
Statement_Block_Scoped(c) ==
    LET x == EnvExtend(c.heap, c.ctl.env, <<>>, <<>>)
    IN  IF c.ctl.s.ss = <<>>
        THEN [c EXCEPT !.ctl = OkStatement(Void, "Normal")]
        ELSE [c EXCEPT !.heap = x.heap,
                       !.ctl = CallStatement(x.env, Head(c.ctl.s.ss), c.ctl.in_loop),
                       !.kont = Push(c.kont, [f |-> "Block", rest |-> Tail(c.ctl.s.ss),
                                              env |-> x.env, in_loop |-> c.ctl.in_loop])]

\* Statement::Block(statements): block_value = Void, then the first statement
Statement_Block(c) ==
    IF c.ctl.s.ss = <<>>
    THEN [c EXCEPT !.ctl = OkStatement(Void, "Normal")]
    ELSE [c EXCEPT !.ctl = CallStatement(c.ctl.env, Head(c.ctl.s.ss), c.ctl.in_loop),
                   !.kont = Push(c.kont, [f |-> "Block", rest |-> Tail(c.ctl.s.ss),
                                          env |-> c.ctl.env, in_loop |-> c.ctl.in_loop])]

\* BlockAfterStatement with a Continue taken for the end of the statement
BlockAfterStatement_ContinueGoesOn(v, cf, in_loop) ==
    CASE cf \in {"Normal", "Continue"} -> [go |-> "on", v |-> v, cf |-> "Normal"]
      [] cf = "Return" -> [go |-> "return", v |-> v, cf |-> "Return"]
      [] cf = "Break" -> IF in_loop THEN [go |-> "return", v |-> v, cf |-> "Break"]
                         ELSE [go |-> "fail", err |-> BreakNotInLoop]

\* the match on a statement's (value, ControlFlow) inside a block: go on
\* with the value, return a pair, or fail
BlockAfterStatement(v, cf, in_loop) ==
    CASE cf = "Normal" -> [go |-> "on", v |-> v, cf |-> cf]
      [] cf = "Return" -> [go |-> "return", v |-> v, cf |-> "Return"]
      [] cf = "Break" -> IF in_loop THEN [go |-> "return", v |-> v, cf |-> "Break"]
                         ELSE [go |-> "fail", err |-> BreakNotInLoop]
      [] cf = "Continue" -> IF in_loop THEN [go |-> "return", v |-> v, cf |-> "Continue"]
                            ELSE [go |-> "fail", err |-> ContinueNotInLoop]

\* a statement of the block has returned
Statement_Block_k(c) ==
    LET fr == Top(c.kont)
        r == BlockAfterStatement(c.ctl.v, c.ctl.cf, fr.in_loop)
    IN  CASE r.go = "fail" -> [c EXCEPT !.ctl = Err(r.err)]
          [] r.go = "return" -> [c EXCEPT !.ctl = OkStatement(r.v, r.cf), !.kont = Pop(c.kont)]
          [] r.go = "on" ->
               IF fr.rest = <<>>
               THEN [c EXCEPT !.ctl = OkStatement(r.v, "Normal"), !.kont = Pop(c.kont)]
               ELSE [c EXCEPT !.ctl = CallStatement(fr.env, Head(fr.rest), fr.in_loop),
                              !.kont = Push(Pop(c.kont), [fr EXCEPT !.rest = Tail(fr.rest)])]

----------------------------------------------------------------------------
(* Display for Value.  Text is a sequence of one-character strings.        *)

Digits == <<"0", "1", "2", "3", "4", "5", "6", "7", "8", "9">>

RECURSIVE DisplayNat(_)
DisplayNat(n) == IF n < 10 THEN <<Digits[n + 1]>> ELSE DisplayNat(n \div 10) \o <<Digits[(n % 10) + 1]>>

\* write!(f, "{}", n) for an integer
DisplayNum(n) == IF n < 0 THEN <<"-">> \o DisplayNat(-n) ELSE DisplayNat(n)

\* impl fmt::Display for Value
Display(v) ==
    CASE v.k = "Num" -> DisplayNum(v.n)
      [] v.k = "Bool" -> IF v.b THEN <<"t", "r", "u", "e">> ELSE <<"f", "a", "l", "s", "e">>
      [] v.k = "Void" -> <<"<", "v", "o", "i", "d", ">">>
      [] v.k = "Str" -> v.s
      [] v.k = "Lambda" -> <<"<", "l", "a", "m", "b", "d", "a", ">">>

\* values.join(" ") over the display texts
\* JoinDisplay with a space after every value
JoinDisplay_Trailing(values) ==
    LET RECURSIVE Each(_)
        Each(vs) == IF vs = <<>> THEN <<>> ELSE Display(Head(vs)) \o <<" ">> \o Each(Tail(vs))
    IN  Each(values)

RECURSIVE JoinDisplay(_)
JoinDisplay(values) ==
    IF values = <<>> THEN <<>>
    ELSE IF Len(values) = 1 THEN Display(values[1])
    ELSE Display(values[1]) \o <<" ">> \o JoinDisplay(Tail(values))

\* impl fmt::Display for LingerError, the RuntimeError arms: the message as
\* a sequence of text pieces
DisplayRuntimeError(err) ==
    CASE err.e = "UnknownVariable" -> <<"unknown variable \"", err.id, "\"">>
      [] err.e = "BadArg" -> <<"bad argument \"">> \o Display(err.v) \o <<"\"">>
      [] err.e = "ArgMismatch" ->
            <<"procedure \"", err.name, "\" expected ">> \o DisplayNum(err.expected)
                \o <<" args, instead got ">> \o DisplayNum(err.actual)
      [] err.e = "BreakNotInLoop" -> <<"tried to break while not within a loop">>
      [] err.e = "ContinueNotInLoop" -> <<"continue statement found outside of a loop">>


----------------------------------------------------------------------------
(* interp_expression, one operator per match arm.                          *)

\* Expr::Num(n) / Expr::Bool(b) / Expr::Str(s)
LiteralValue(e) ==
    CASE e.t = "Num" -> Num(e.n)
      [] e.t = "Bool" -> Bool(e.b)
      [] e.t = "Str" -> Str(e.s)

Expr_Literal(c) == [c EXCEPT !.ctl = OkExpression(LiteralValue(c.ctl.e))]

\* CapturedEnv with a copy of the scope at hand
CapturedEnv_Snapshot(h, env) == [heap |-> Append(h, h[env]), env |-> Len(h) + 1]

\* the environment a lambda value captures: env.clone()
CapturedEnv(h, env) == [heap |-> h, env |-> EnvClone(env)]

\* Expr::Proc(params, body) => Ok(Value::Lambda(params, *body, env.clone()))
Expr_Proc(c) ==
    LET x == CapturedEnv(c.heap, c.ctl.env)
    IN  [c EXCEPT !.heap = x.heap,
                  !.ctl = OkExpression(Lambda(c.ctl.e.params, c.ctl.e.body, x.env))]

\* Expr::Var(id) => env.get(id.to_string())
Expr_Var(c) ==
    LET v == EnvGet(c.heap, c.ctl.env, c.ctl.e.id)
    IN  IF v = Unbound THEN [c EXCEPT !.ctl = Err(UnknownVariable(c.ctl.e.id))]
        ELSE [c EXCEPT !.ctl = OkExpression(v)]

\* Expr::Binary(Plus, left, right): the left operand first
Expr_Binary_Plus(c) ==
    [c EXCEPT !.ctl = CallExpression(c.ctl.env, c.ctl.e.l),
              !.kont = Push(c.kont, [f |-> "PlusLeft", r |-> c.ctl.e.r, env |-> c.ctl.env])]

\* then the right operand
Expr_Binary_Plus_k(c) ==
    [c EXCEPT !.ctl = CallExpression(Top(c.kont).env, Top(c.kont).r),
              !.kont = Push(Pop(c.kont), [f |-> "PlusRight", l |-> c.ctl.v])]

\* i64: the width is scaled down to NumBits bits
NumBits == 8
MinNum == -(2 ^ (NumBits - 1))
MaxNum == (2 ^ (NumBits - 1)) - 1

\* num_left + num_right on i64: on overflow a panic in a build with
\* overflow checks, the two's complement sum in a build without
AddNum(a, b, checks) ==
    IF a + b \in MinNum..MaxNum THEN OkExpression(Num(a + b))
    ELSE IF checks THEN Abort
    ELSE OkExpression(Num(((a + b - MinNum) % (2 ^ NumBits)) + MinNum))

\* the match on the pair of operand values
Plus(l, r, checks) ==
    CASE l.k = "Num" /\ r.k = "Num" -> AddNum(l.n, r.n, checks)
      [] l.k = "Str" /\ r.k = "Str" -> OkExpression(Str(l.s \o r.s))
      [] l.k = "Num" /\ r.k # "Num" -> Err(BadArg(r))
      [] OTHER -> Err(BadArg(l))

Expr_Binary_Plus_kk(c) ==
    LET r == Plus(Top(c.kont).l, c.ctl.v, c.checks)
    IN  IF r.m \in {"err", "abort"} THEN [c EXCEPT !.ctl = r]
        ELSE [c EXCEPT !.ctl = r, !.kont = Pop(c.kont)]

\* Expr::Binary(_ other than Plus, ..) and Expr::Unary(..): todo!() panics
Expr_Todo(c) == [c EXCEPT !.ctl = Abort]

IsTodo(e) == (e.t = "Binary" /\ e.op # "Plus") \/ e.t = "Unary"

\* f_name: the callee's identifier, or "<lambda>"
CalleeName(f_expr) == IF f_expr.t = "Var" THEN f_expr.id ELSE "<lambda>"

\* Expr::Call(f_expr, args): evaluate the callee
Expr_Call(c) ==
    [c EXCEPT !.ctl = CallExpression(c.ctl.env, c.ctl.e.f),
              !.kont = Push(c.kont, [f |-> "Callee", f_name |-> CalleeName(c.ctl.e.f),
                                     args |-> c.ctl.e.args, env |-> c.ctl.env])]

\* CallScope with the caller's environment for parent
CallScope_Dynamic(h, f_env, caller_env, f_params, arg_values) == EnvExtend(h, caller_env, f_params, arg_values)

\* the scope a call body runs in: f_env.extend(bindings)
CallScope(h, f_env, caller_env, f_params, arg_values) == EnvExtend(h, f_env, f_params, arg_values)

\* interp_statement(&mut f_env.extend(bindings), f_body, false)
EnterBody(c, fr, arg_values) ==
    LET x == CallScope(c.heap, fr.f_env, fr.env, fr.f_params, arg_values)
    IN  [c EXCEPT !.heap = x.heap,
                  !.ctl = CallStatement(x.env, fr.f_body, FALSE),
                  !.kont = Push(Pop(c.kont), [f |-> "Body", f_env |-> fr.f_env,
                                              scope |-> x.env, env |-> fr.env])]

\* CheckCallee with the two counts exchanged
CheckCallee_Swapped(f_name, args, v) ==
    IF v.k # "Lambda" THEN Err(BadArg(v))
    ELSE IF Len(args) # Len(v.params) THEN Err(ArgMismatch(f_name, Len(v.params), Len(args)))
    ELSE OkExpression(v)

\* the check of the callee value and of the arity
CheckCallee(f_name, args, v) ==
    IF v.k # "Lambda" THEN Err(BadArg(v))
    ELSE IF Len(args) # Len(v.params) THEN Err(ArgMismatch(f_name, Len(args), Len(v.params)))
    ELSE OkExpression(v)

\* the callee is known: check it, then evaluate the first argument
Expr_Call_k(c) ==
    LET fr == Top(c.kont)
        chk == CheckCallee(fr.f_name, fr.args, c.ctl.v)
        afr == [f |-> "Args", f_name |-> fr.f_name, f_params |-> c.ctl.v.params,
                f_body |-> c.ctl.v.body, f_env |-> c.ctl.v.env,
                rest |-> IF fr.args = <<>> THEN <<>> ELSE Tail(fr.args),
                values |-> <<>>, env |-> fr.env]
    IN  IF chk.m = "err" THEN [c EXCEPT !.ctl = chk]
        ELSE IF fr.args = <<>>
             THEN EnterBody(c, afr, <<>>)
             ELSE [c EXCEPT !.ctl = CallExpression(fr.env, Head(fr.args)),
                            !.kont = Push(Pop(c.kont), afr)]

\* an argument is known: the next argument, or the body
Expr_Call_arg_k(c) ==
    LET fr == Top(c.kont)
        values == Append(fr.values, c.ctl.v)
    IN  IF fr.rest = <<>> THEN EnterBody(c, fr, values)
        ELSE [c EXCEPT !.ctl = CallExpression(fr.env, Head(fr.rest)),
                       !.kont = Push(Pop(c.kont),
                                     [fr EXCEPT !.rest = Tail(fr.rest), !.values = values])]

\* what a call yields from the body's (value, ControlFlow)
CallResult(v, cf) == OkExpression(v)

\* (value, _) => Ok(value)
Expr_Call_body_k(c) ==
    [c EXCEPT !.ctl = CallResult(c.ctl.v, c.ctl.cf), !.kont = Pop(c.kont)]

\* print!("{}", values.join(" ")); Ok(Value::Void)
PrintValues(c, values) ==
    [c EXCEPT !.out = c.out \o JoinDisplay(values), !.ctl = OkExpression(Void)]

\* Expr::PrimitiveCall(Print, args): evaluate the first argument
Expr_Print(c) ==
    IF c.ctl.e.args = <<>> THEN PrintValues(c, <<>>)
    ELSE [c EXCEPT !.ctl = CallExpression(c.ctl.env, Head(c.ctl.e.args)),
                   !.kont = Push(c.kont, [f |-> "Print", rest |-> Tail(c.ctl.e.args),
                                          values |-> <<>>, env |-> c.ctl.env])]

\* an argument is known: the next argument, or the output
Expr_Print_k(c) ==
    LET fr == Top(c.kont)
        values == Append(fr.values, c.ctl.v)
    IN  IF fr.rest = <<>> THEN PrintValues([c EXCEPT !.kont = Pop(c.kont)], values)
        ELSE [c EXCEPT !.ctl = CallExpression(fr.env, Head(fr.rest)),
                       !.kont = Push(Pop(c.kont),
                                     [fr EXCEPT !.rest = Tail(fr.rest), !.values = values])]

----------------------------------------------------------------------------
(* interp_program                                                          *)

\* ProcedureEnv with the root environment
ProcedureEnv_Global(h, initial_env) == [heap |-> h, env |-> initial_env]

\* the environment a top-level procedure captures: Environment::new()
ProcedureEnv(h, initial_env) == EnvNew(h)

\* for Procedure { name, params, body } in p.procedures { initial_env.update(..) }
RECURSIVE BindProcedures(_, _, _)
BindProcedures(h, initial_env, procedures) ==
    IF procedures = <<>> THEN h
    ELSE LET p == Head(procedures)
             n == ProcedureEnv(h, initial_env)
         IN  BindProcedures(
                 EnvUpdate(n.heap, initial_env, p.name, Lambda(p.params, p.body, n.env)),
                 initial_env, Tail(procedures))

\* interp_statement(&mut initial_env, p.main, false)
interp_program(c, p) ==
    LET n == EnvNew(c.heap)
    IN  [c EXCEPT !.heap = BindProcedures(n.heap, n.env, p.procedures),
                  !.ctl = CallStatement(n.env, p.main, FALSE),
                  !.kont = <<[f |-> "Main", env |-> n.env]>>]

\* (value, _) => Ok(value)
interp_program_k(c) == [c EXCEPT !.ctl = Done(c.ctl.v), !.kont = Pop(c.kont)]

----------------------------------------------------------------------------
(* Surface AST (parser.rs SugaredStatement / SugaredExpr) and desugar.rs.  *)
(* The forms that desugar one-to-one share the core constructors; the      *)
(* sugared-only forms are the cascading if, the for loop and the lambda.   *)

SugaredIf(c, th, else_ifs, el) == [t |-> "SugaredIf", c |-> c, th |-> th, else_ifs |-> else_ifs, el |-> el]
ElseIf(c, b) == [c |-> c, b |-> b]
SugaredFor(init, c, step, body) == [t |-> "SugaredFor", init |-> init, c |-> c, step |-> step, body |-> body]
SugaredLambda(params, body) == [t |-> "Lambda", params |-> params, body |-> body]
SugaredProcedure(name, params, body) == [name |-> name, params |-> params, body |-> body]

\* a statement that no arm of desugar_statement's match covers
Unmatched(s) == [t |-> "Unmatched", s |-> s]

RECURSIVE desugar_statement(_), desugar_expression(_), FoldElseIfs(_, _)

\* desugar_statements: map desugar_statement over the list
desugar_statements(ss) == [i \in 1..Len(ss) |-> desugar_statement(ss[i])]

\* FoldElseIfs folding from the left
RECURSIVE FoldElseIfs_Left(_, _)
FoldElseIfs_Left(else_ifs, acc) ==
    IF else_ifs = <<>> THEN acc
    ELSE LET cur == Head(else_ifs)
         IN  FoldElseIfs_Left(Tail(else_ifs),
                              S_If(desugar_expression(cur.c), desugar_statement(cur.b), acc))

\* else_ifs.into_iter().rfold(desugared_else_option, ..)
FoldElseIfs(else_ifs, acc) ==
    IF else_ifs = <<>> THEN acc
    ELSE LET cur == else_ifs[Len(else_ifs)]
         IN  FoldElseIfs(SubSeq(else_ifs, 1, Len(else_ifs) - 1),
                         S_If(desugar_expression(cur.c), desugar_statement(cur.b), acc))

\* ForWhileBlock with the step ahead of the body
ForWhileBlock_StepFirst(body_statements, reassign_statement) == <<reassign_statement>> \o body_statements

\* the while block of a desugared for: the body's statements, then the step
ForWhileBlock(body_statements, reassign_statement) == body_statements \o <<reassign_statement>>

desugar_statement(s) ==
    CASE s.t = "Expr" -> S_Expr(desugar_expression(s.e))
      [] s.t = "Let" -> S_Let(s.id, desugar_expression(s.e))
      [] s.t = "Assign" -> S_Assign(s.id, desugar_expression(s.e))
      [] s.t = "SugaredIf" ->
           S_If(desugar_expression(s.c), desugar_statement(s.th),
                FoldElseIfs(s.else_ifs, IF s.el = None THEN None ELSE desugar_statement(s.el)))
      [] s.t = "Return" -> S_Return(IF s.e = None THEN None ELSE desugar_expression(s.e))
      [] s.t = "While" -> S_While(desugar_expression(s.c), desugar_statement(s.body))
      [] s.t = "SugaredFor" ->
           S_Block(<<desugar_statement(s.init),
                     S_While(desugar_expression(s.c),
                             S_Block(ForWhileBlock(desugar_statements(s.body),
                                                   desugar_statement(s.step))))>>)
      [] s.t = "Break" -> S_Break
      [] s.t = "Continue" -> S_Continue
      [] s.t = "Block" -> S_Block(desugar_statements(s.ss))
      [] OTHER -> Unmatched(s)

desugar_expression(e) ==
    CASE e.t = "Num" -> E_Num(e.n)
      [] e.t = "Bool" -> E_Bool(e.b)
      [] e.t = "Str" -> E_Str(e.s)
      [] e.t = "Var" -> E_Var(e.id)
      [] e.t = "Binary" -> E_Binary(e.op, desugar_expression(e.l), desugar_expression(e.r))
      [] e.t = "Unary" -> E_Unary(e.op, desugar_expression(e.e))
      [] e.t = "PrimitiveCall" ->
           E_PrimitiveCall([i \in 1..Len(e.args) |-> desugar_expression(e.args[i])])
      [] e.t = "Call" ->
           E_Call(desugar_expression(e.f), [i \in 1..Len(e.args) |-> desugar_expression(e.args[i])])
      [] e.t = "Lambda" -> E_Proc(e.params, desugar_statement(e.body))

----------------------------------------------------------------------------
(* parser.rs: the recursive descent parser, one operator per function.     *)
(* A token is its TokenValue (the line and column of tokenizer::Token are  *)
(* left out); a Result is [ok, v, rest] or [ok, err].                      *)

KW(kw) == [k |-> "KW", kw |-> kw]
ID(id) == [k |-> "ID", id |-> id]
STR(s) == [k |-> "STR", s |-> s]
NUM(n) == [k |-> "NUM", n |-> n]
OP(op) == [k |-> "OP", op |-> op]
ASSIGN_OP(op) == [k |-> "ASSIGN_OP", op |-> op]
ASSIGN == [k |-> "ASSIGN"]
LPAREN == [k |-> "LPAREN"]
RPAREN == [k |-> "RPAREN"]
LBRACKET == [k |-> "LBRACKET"]
RBRACKET == [k |-> "RBRACKET"]
COMMA == [k |-> "COMMA"]
SEMICOLON == [k |-> "SEMICOLON"]
THIN_ARROW == [k |-> "THIN_ARROW"]
DOUBLE_PLUS == [k |-> "DOUBLE_PLUS"]
DOUBLE_MINUS == [k |-> "DOUBLE_MINUS"]

\* enum ParseError
NoMain == [e |-> "NoMain"]
MultipleSameNamedProcs(name) == [e |-> "MultipleSameNamedProcs", name |-> name]
UnexpectedToken(token) == [e |-> "UnexpectedToken", token |-> token]
UnexpectedEOF == [e |-> "UnexpectedEOF"]
Expected(target, token) == [e |-> "Expected", target |-> target, token |-> token]
KeywordAsVar(kw) == [e |-> "KeywordAsVar", kw |-> kw]
KeywordAsProc(kw) == [e |-> "KeywordAsProc", kw |-> kw]
KeywordAsParam(kw) == [e |-> "KeywordAsParam", kw |-> kw]
ExpectedStatement == [e |-> "ExpectedStatement"]
ExpectedBlock == [e |-> "ExpectedBlock"]
ExpectedAssignment == [e |-> "ExpectedAssignment"]
ExpectedAssignmentOrInitialization == [e |-> "ExpectedAssignmentOrInitialization"]

\* impl fmt::Display for LingerError, the ParseError arms that print no
\* token: the message as a sequence of text pieces
DisplayParseError(err) ==
    CASE err.e = "NoMain" -> <<"main procedure not found">>
      [] err.e = "KeywordAsVar" -> <<"keyword \"", err.kw, "\" used as variable">>
      [] err.e = "KeywordAsProc" -> <<"keyword \"", err.kw, "\" used as procedure name">>
      [] err.e = "KeywordAsParam" -> <<"keyword \"", err.kw, "\" used as parameter name">>
      [] err.e = "ExpectedStatement" -> <<"expected statement">>
      [] err.e = "ExpectedBlock" -> <<"expected block">>
      [] err.e = "MultipleSameNamedProcs" -> <<"multiple procedures with name \"", err.name, "\"">>

ParseOk(v, rest) == [ok |-> TRUE, v |-> v, rest |-> rest]
ParseErr(e) == [ok |-> FALSE, err |-> e]

\* slice patterns: the i-th token of the slice (EOF beyond its end), and
\* the slice without its first n tokens
EOF == [k |-> "EOF"]
Tok(tokens, i) == IF i <= Len(tokens) THEN tokens[i] ELSE EOF
Drop(tokens, n) == SubSeq(tokens, n + 1, Len(tokens))

\* surface nodes the core AST does not have
S_Const(id, e) == [t |-> "Const", id |-> id, e |-> e]
S_OperatorAssignment(op, id, e) == [t |-> "OperatorAssignment", op |-> op, id |-> id, e |-> e]

\* unexpected_token
unexpected_token(tokens) ==
    IF tokens = <<>> THEN UnexpectedEOF ELSE UnexpectedToken(tokens[1])

\* check_builtin
check_builtin(expr) == expr.t = "Var" /\ expr.id = "print"

\* consume_token: the rest of the slice, or Expected / UnexpectedEOF
consume_token(target, tokens) ==
    IF tokens = <<>> THEN ParseErr(UnexpectedEOF)
    ELSE IF tokens[1] = target THEN ParseOk(target, Tail(tokens))
    ELSE ParseErr(Expected(target, tokens[1]))

\* conditionally_consume_semicolon
conditionally_consume_semicolon(tokens, should_consume) ==
    IF should_consume THEN consume_token(SEMICOLON, tokens) ELSE ParseOk(SEMICOLON, tokens)

\* match_operator: [found, op, rest]
match_operator(operators, tokens) ==
    IF tokens # <<>> /\ tokens[1].k = "OP" /\ tokens[1].op \in operators
    THEN [found |-> TRUE, op |-> tokens[1].op, rest |-> Tail(tokens)]
    ELSE [found |-> FALSE]

\* binary_expression with its two arguments exchanged
binary_expression_Swapped(op, first_arg, second_arg) == E_Binary(op, second_arg, first_arg)

\* binary_expression
binary_expression(op, first_arg, second_arg) == E_Binary(op, first_arg, second_arg)

\* ensure_block, on the Option<SugaredStatement> (None for Option::None)
ensure_block(statement_option) ==
    IF statement_option # None /\ statement_option.t = "Block"
    THEN ParseOk(statement_option, <<>>)
    ELSE ParseErr(ExpectedBlock)

IncrementOps == {"PreIncrement", "PostIncrement", "PreDecrement", "PostDecrement"}

\* is_assignment
is_assignment(statement) ==
    \/ statement.t \in {"Assign", "OperatorAssignment"}
    \/ statement.t = "Expr" /\ statement.e.t = "Unary" /\ statement.e.op \in IncrementOps

\* is_assignment_or_initialization accepting every statement
is_assignment_or_initialization_Any(statement) == TRUE

\* is_assignment_or_initialization
is_assignment_or_initialization(statement) == statement.t = "Let" \/ is_assignment(statement)

RECURSIVE parse_params(_), parse_rest_params(_)

\* parse_params
parse_params(tokens) ==
    CASE Tok(tokens, 1) = RPAREN -> ParseOk(<<>>, Drop(tokens, 1))
      [] Tok(tokens, 1).k = "KW" -> ParseErr(KeywordAsParam(tokens[1].kw))
      [] Tok(tokens, 1).k = "ID" ->
            LET r == parse_rest_params(Drop(tokens, 1))
            IN  IF r.ok THEN ParseOk(<<tokens[1].id>> \o r.v, r.rest) ELSE r
      [] OTHER -> ParseErr(unexpected_token(tokens))

\* parse_rest_params
parse_rest_params(tokens) ==
    IF Tok(tokens, 1) = RPAREN THEN ParseOk(<<>>, Drop(tokens, 1))
    ELSE IF Tok(tokens, 1) = COMMA /\ Tok(tokens, 2) = RPAREN THEN ParseErr(unexpected_token(tokens))
    ELSE IF Tok(tokens, 1) = COMMA THEN parse_params(Drop(tokens, 1))
    ELSE ParseErr(unexpected_token(tokens))

RECURSIVE parse_statement(_, _), parse_statements(_), parse_expr(_), parse_logical_or_expr(_)
RECURSIVE parse_logical_and_expr(_), parse_equality_expr(_), parse_relational_expr(_)
RECURSIVE parse_additive_expr(_), parse_multiplicative_expr(_), parse_unary_expr(_)
RECURSIVE parse_call_expr(_), parse_terminal_expr(_), parse_args(_), parse_rest_args(_)
RECURSIVE CallParser(_, _), parse_binary_loop(_, _, _, _), parse_call_loop(_, _)
RECURSIVE parse_else_ifs(_, _)

(* A function that goes on after a call `let (x, tokens) = f(..)?;` is     *)
(* written as one operator per such call: the operator takes the call's    *)
(* result r, hands an Err on (the ? operator) and goes on with r.v and     *)
(* r.rest otherwise.                                                       *)

\* the call of a BinaryExpressionParser function pointer
CallParser(parse_fn, tokens) ==
    CASE parse_fn = "parse_logical_and_expr" -> parse_logical_and_expr(tokens)
      [] parse_fn = "parse_equality_expr" -> parse_equality_expr(tokens)
      [] parse_fn = "parse_relational_expr" -> parse_relational_expr(tokens)
      [] parse_fn = "parse_additive_expr" -> parse_additive_expr(tokens)
      [] parse_fn = "parse_multiplicative_expr" -> parse_multiplicative_expr(tokens)
      [] parse_fn = "parse_unary_expr" -> parse_unary_expr(tokens)

\* parse_binary_expr, loop body after `let (right, rest) = parse_expr(rest)?`
parse_binary_right(parse_fn, operators, expr, op, r) ==
    IF ~r.ok THEN r
    ELSE parse_binary_loop(parse_fn, operators, binary_expression(op, expr, r.v), r.rest)

\* the loop of parse_binary_expr: expr is the tree so far
parse_binary_loop(parse_fn, operators, expr, tokens) ==
    LET m == match_operator(operators, tokens)
    IN  IF ~m.found THEN ParseOk(expr, tokens)
        ELSE parse_binary_right(parse_fn, operators, expr, m.op, CallParser(parse_fn, m.rest))

\* parse_binary_expr, after `let (mut expr, mut tokens) = parse_expr(tokens)?`
parse_binary_left(parse_fn, operators, r) ==
    IF ~r.ok THEN r ELSE parse_binary_loop(parse_fn, operators, r.v, r.rest)

\* parse_binary_expr
parse_binary_expr(parse_fn, operators, tokens) ==
    parse_binary_left(parse_fn, operators, CallParser(parse_fn, tokens))

parse_expr(tokens) == parse_logical_or_expr(tokens)
parse_logical_or_expr(tokens) == parse_binary_expr("parse_logical_and_expr", {"LogicOr"}, tokens)
parse_logical_and_expr(tokens) == parse_binary_expr("parse_equality_expr", {"LogicAnd"}, tokens)
parse_equality_expr(tokens) == parse_binary_expr("parse_relational_expr", {"Eq", "Ne"}, tokens)
parse_relational_expr(tokens) ==
    parse_binary_expr("parse_additive_expr", {"LT", "GT", "LTE", "GTE"}, tokens)
parse_additive_expr(tokens) ==
    parse_binary_expr("parse_multiplicative_expr", {"Plus", "Minus"}, tokens)
parse_multiplicative_expr(tokens) ==
    parse_binary_expr("parse_unary_expr", {"Times", "Mod", "Div"}, tokens)

\* parse_unary_expr, after `let (right, tokens) = parse_unary_expr(tokens)?`
parse_unary_operand(op, r) ==
    IF r.ok THEN ParseOk(E_Unary(op, r.v), r.rest) ELSE r

\* parse_unary_expr, after `let (terminal_expr, tokens) = parse_call_expr(tokens)?`:
\* pre is the prefix operator, or "None"
parse_unary_postfix(pre, r) ==
    IF ~r.ok THEN r
    ELSE IF pre # "None" THEN ParseOk(E_Unary(pre, r.v), r.rest)
    ELSE IF Tok(r.rest, 1) = DOUBLE_PLUS
         THEN ParseOk(E_Unary("PostIncrement", r.v), Drop(r.rest, 1))
    ELSE IF Tok(r.rest, 1) = DOUBLE_MINUS
         THEN ParseOk(E_Unary("PostDecrement", r.v), Drop(r.rest, 1))
    ELSE r

\* parse_unary_expr
parse_unary_expr(tokens) ==
    LET m == match_operator({"Minus", "LogicNot"}, tokens)
    IN  IF m.found THEN parse_unary_operand(m.op, parse_unary_expr(m.rest))
        ELSE IF Tok(tokens, 1) = DOUBLE_PLUS
             THEN parse_unary_postfix("PreIncrement", parse_call_expr(Drop(tokens, 1)))
        ELSE IF Tok(tokens, 1) = DOUBLE_MINUS
             THEN parse_unary_postfix("PreDecrement", parse_call_expr(Drop(tokens, 1)))
        ELSE parse_unary_postfix("None", parse_call_expr(tokens))

\* parse_call_expr, loop body after `let (args, rest) = parse_args(rest)?`
parse_call_args(expr, a) ==
    IF ~a.ok THEN a
    ELSE parse_call_loop(IF check_builtin(expr) THEN E_PrimitiveCall(a.v) ELSE E_Call(expr, a.v),
                         a.rest)

\* the loop of parse_call_expr: one argument list after another
parse_call_loop(expr, tokens) ==
    IF Tok(tokens, 1) # LPAREN THEN ParseOk(expr, tokens)
    ELSE parse_call_args(expr, parse_args(Drop(tokens, 1)))

\* parse_call_expr, after `let (mut expr, mut tokens) = parse_terminal_expr(tokens)?`
parse_call_callee(r) == IF ~r.ok THEN r ELSE parse_call_loop(r.v, r.rest)

\* parse_call_expr
parse_call_expr(tokens) == parse_call_callee(parse_terminal_expr(tokens))

\* Backtracks with every error of parse_params taken for a non-list
Backtracks_Always(e) == TRUE

\* Err(UnexpectedToken(_)) =>: the error of parse_params after which the
\* slice is parsed again as a parenthesized expression
Backtracks(e) == e.e = "UnexpectedToken"

\* parse_terminal_expr, after `match parse_statement(tokens, false)?`
parse_lambda_body(params, b) ==
    IF ~b.ok THEN b
    ELSE IF b.v = None THEN ParseErr(ExpectedStatement)
    ELSE ParseOk(SugaredLambda(params, b.v), b.rest)

\* parse_terminal_expr, after `let (expr, tokens) = parse_expr(tokens)?`
parse_closing_paren(x) ==
    IF ~x.ok THEN x
    ELSE LET c == consume_token(RPAREN, x.rest)
         IN  IF ~c.ok THEN c ELSE ParseOk(x.v, c.rest)

\* the arm of parse_terminal_expr for a slice that starts with LPAREN:
\* a lambda, or a parenthesized expression
parse_after_lparen(tokens) ==
    LET p == parse_params(tokens)
        a == consume_token(THIN_ARROW, p.rest)
    IN  IF p.ok
        THEN IF ~a.ok THEN a ELSE parse_lambda_body(p.v, parse_statement(a.rest, FALSE))
        ELSE IF Backtracks(p.err) THEN parse_closing_paren(parse_expr(tokens))
        ELSE p

\* parse_terminal_expr
parse_terminal_expr(tokens) ==
    LET t == Tok(tokens, 1)
    IN  IF t.k = "STR" THEN ParseOk(E_Str(t.s), Drop(tokens, 1))
        ELSE IF t = KW("True") THEN ParseOk(E_Bool(TRUE), Drop(tokens, 1))
        ELSE IF t = KW("False") THEN ParseOk(E_Bool(FALSE), Drop(tokens, 1))
        ELSE IF t.k = "KW" THEN ParseErr(KeywordAsVar(t.kw))
        ELSE IF t.k = "ID" THEN ParseOk(E_Var(t.id), Drop(tokens, 1))
        ELSE IF t = LPAREN THEN parse_after_lparen(Drop(tokens, 1))
        ELSE IF t.k = "NUM" THEN ParseOk(E_Num(t.n), Drop(tokens, 1))
        ELSE ParseErr(unexpected_token(tokens))

\* a list parser, after the parse of the list's tail: first put in front
Cons(first, r) == IF ~r.ok THEN r ELSE ParseOk(<<first>> \o r.v, r.rest)

\* parse_args, after `let (expr, tokens) = parse_expr(tokens)?`
parse_args_first(e) == IF ~e.ok THEN e ELSE Cons(e.v, parse_rest_args(e.rest))

\* parse_args
parse_args(tokens) ==
    IF Tok(tokens, 1) = RPAREN THEN ParseOk(<<>>, Drop(tokens, 1))
    ELSE parse_args_first(parse_expr(tokens))

\* parse_rest_args
parse_rest_args(tokens) ==
    IF Tok(tokens, 1) = RPAREN THEN ParseOk(<<>>, Drop(tokens, 1))
    ELSE IF Tok(tokens, 1) = COMMA /\ Tok(tokens, 2) = RPAREN THEN ParseErr(unexpected_token(tokens))
    ELSE IF Tok(tokens, 1) = COMMA THEN parse_args(Drop(tokens, 1))
    ELSE ParseErr(unexpected_token(tokens))

\* after `let (block_option, tokens) = parse_statement(tokens, true)?;
\* let block = ensure_block(block_option)?`: the block, or the error
parse_block(b) ==
    IF ~b.ok THEN b
    ELSE IF ~ensure_block(b.v).ok THEN ensure_block(b.v)
    ELSE b

\* a result with first put in front of its value
Pair(first, r) == IF ~r.ok THEN r ELSE ParseOk(<<first, r.v>>, r.rest)

\* after `let (cond, tokens) = parse_expr(tokens)?`: the ) and the block
\* that follow; v is <<cond, block>>
parse_cond_block(c) ==
    IF ~c.ok THEN c
    ELSE LET p == consume_token(RPAREN, c.rest)
         IN  IF ~p.ok THEN p ELSE Pair(c.v, parse_block(parse_statement(p.rest, TRUE)))

\* the else-if loop of parse_statement's If arm, after one else if
parse_else_if(else_ifs, cb) ==
    IF ~cb.ok THEN cb
    ELSE parse_else_ifs(Append(else_ifs, ElseIf(cb.v[1], cb.v[2])), cb.rest)

\* the else-if loop of parse_statement's If arm: [ok, v (the else_ifs), rest]
parse_else_ifs(else_ifs, tokens) ==
    IF Tok(tokens, 1) = KW("Else") /\ Tok(tokens, 2) = KW("If") /\ Tok(tokens, 3) = LPAREN
    THEN parse_else_if(else_ifs, parse_cond_block(parse_expr(Drop(tokens, 3))))
    ELSE ParseOk(else_ifs, tokens)

\* the arms of parse_statement that end with
\* conditionally_consume_semicolon, after `let (var_expr, tokens) =
\* parse_expr(tokens)?`: statement is the arm's statement, its expression
\* to be filled in
SimpleStatement(statement, e, parse_semicolon) ==
    IF ~e.ok THEN e
    ELSE LET s == conditionally_consume_semicolon(e.rest, parse_semicolon)
         IN  IF ~s.ok THEN s ELSE ParseOk([statement EXCEPT !.e = e.v], s.rest)

\* parse_statement, If arm, after the else block
parse_if_else_block(cond_expr, then_block, else_ifs, el) ==
    IF ~el.ok THEN el ELSE ParseOk(SugaredIf(cond_expr, then_block, else_ifs, el.v), el.rest)

\* parse_statement, If arm, after the else-if loop
parse_if_else(cond_expr, then_block, ei) ==
    IF ~ei.ok THEN ei
    ELSE IF Tok(ei.rest, 1) = KW("Else")
         THEN parse_if_else_block(cond_expr, then_block, ei.v,
                                  parse_block(parse_statement(Drop(ei.rest, 1), TRUE)))
    ELSE ParseOk(SugaredIf(cond_expr, then_block, ei.v, None), ei.rest)

\* parse_statement, If arm, after the condition and the then block
parse_if_then(cb) ==
    IF ~cb.ok THEN cb ELSE parse_if_else(cb.v[1], cb.v[2], parse_else_ifs(<<>>, cb.rest))

\* parse_statement, arm [KW(If), LPAREN, ..]
parse_if(tokens) == parse_if_then(parse_cond_block(parse_expr(tokens)))

\* parse_statement, While arm, after the condition and the block
parse_while_block(cb) ==
    IF ~cb.ok THEN cb ELSE ParseOk(S_While(cb.v[1], cb.v[2]), cb.rest)

\* parse_statement, arm [KW(While), LPAREN, ..]
parse_while(tokens) == parse_while_block(parse_cond_block(parse_expr(tokens)))

\* parse_statement, For arm, after the body
parse_for_block(var_statement, stop_cond_expr, reassign_statement, b) ==
    IF ~b.ok THEN b
    ELSE IF b.v = None \/ b.v.t # "Block" THEN ParseErr(ExpectedBlock)
    ELSE ParseOk(SugaredFor(var_statement, stop_cond_expr, reassign_statement, b.v.ss), b.rest)

\* parse_statement, For arm, after the third clause
parse_for_step(var_statement, stop_cond_expr, step) ==
    IF ~step.ok THEN step
    ELSE IF step.v = None THEN ParseErr(ExpectedStatement)
    ELSE IF ~is_assignment(step.v) THEN ParseErr(ExpectedAssignment)
    ELSE LET p == consume_token(RPAREN, step.rest)
         IN  IF ~p.ok THEN p
             ELSE parse_for_block(var_statement, stop_cond_expr, step.v,
                                  parse_statement(p.rest, TRUE))

\* parse_statement, For arm, after the second clause
parse_for_cond(var_statement, c) ==
    IF ~c.ok THEN c
    ELSE LET s == consume_token(SEMICOLON, c.rest)
         IN  IF ~s.ok THEN s
             ELSE parse_for_step(var_statement, c.v, parse_statement(s.rest, FALSE))

\* parse_statement, For arm, after the first clause
parse_for_init(init) ==
    IF ~init.ok THEN init
    ELSE IF init.v = None THEN ParseErr(ExpectedStatement)
    ELSE IF ~is_assignment_or_initialization(init.v)
         THEN ParseErr(ExpectedAssignmentOrInitialization)
    ELSE parse_for_cond(init.v, parse_expr(init.rest))

\* parse_statement, arm [KW(For), LPAREN, ..]
parse_for(tokens) == parse_for_init(parse_statement(tokens, TRUE))

\* the semicolon after return <expr>, break and continue:
\* consume_token(SEMICOLON, tokens), whatever parse_semicolon says
JumpSemicolon(tokens, parse_semicolon) == consume_token(SEMICOLON, tokens)

\* parse_statement, Return arm, after `let (return_expr, tokens) = parse_expr(tokens)?`
parse_return_expr(e, parse_semicolon) ==
    IF ~e.ok THEN e
    ELSE LET s == JumpSemicolon(e.rest, parse_semicolon)
         IN  IF ~s.ok THEN s ELSE ParseOk(S_Return(e.v), s.rest)

\* parse_statement, arms [KW(Return), ..], [KW(Break), ..], [KW(Continue), ..]
parse_jump(tokens, parse_semicolon) ==
    LET t == Tok(tokens, 1)
        s == JumpSemicolon(Drop(tokens, 1), parse_semicolon)
    IN  IF t = KW("Return") /\ Tok(tokens, 2) = SEMICOLON
        THEN ParseOk(S_Return(None), Drop(tokens, 2))
        ELSE IF t = KW("Return") THEN parse_return_expr(parse_expr(Drop(tokens, 1)), parse_semicolon)
        ELSE IF ~s.ok THEN s
        ELSE ParseOk(IF t = KW("Break") THEN S_Break ELSE S_Continue, s.rest)

\* parse_statement, Block arm, after `let (statements, tokens) = parse_statements(tokens)?`
parse_block_statements(b) == IF ~b.ok THEN b ELSE ParseOk(S_Block(b.v), b.rest)

\* parse_statement: v is None for Option::None
parse_statement(tokens, parse_semicolon) ==
    LET t1 == Tok(tokens, 1)
        t2 == Tok(tokens, 2)
        t3 == Tok(tokens, 3)
    IN  IF t1 = RBRACKET THEN ParseOk(None, Drop(tokens, 1))
        ELSE IF t1 = KW("Let") /\ t2.k = "KW" THEN ParseErr(KeywordAsVar(t2.kw))
        ELSE IF t1 = KW("Const") /\ t2.k = "KW" THEN ParseErr(KeywordAsVar(t2.kw))
        ELSE IF t1 = KW("Let") /\ t2.k = "ID" /\ t3 = ASSIGN
             THEN SimpleStatement(S_Let(t2.id, None), parse_expr(Drop(tokens, 3)), parse_semicolon)
        ELSE IF t1 = KW("Const") /\ t2.k = "ID" /\ t3 = ASSIGN
             THEN SimpleStatement(S_Const(t2.id, None), parse_expr(Drop(tokens, 3)),
                                  parse_semicolon)
        ELSE IF t1.k = "KW" /\ t2 = ASSIGN THEN ParseErr(KeywordAsVar(t1.kw))
        ELSE IF t1.k = "ID" /\ t2 = ASSIGN
             THEN SimpleStatement(S_Assign(t1.id, None), parse_expr(Drop(tokens, 2)),
                                  parse_semicolon)
        ELSE IF t1.k = "ID" /\ t2.k = "ASSIGN_OP"
             THEN SimpleStatement(S_OperatorAssignment(t2.op, t1.id, None),
                                  parse_expr(Drop(tokens, 2)), parse_semicolon)
        ELSE IF t1 = KW("If") /\ t2 = LPAREN THEN parse_if(Drop(tokens, 2))
        ELSE IF t1 = KW("While") /\ t2 = LPAREN THEN parse_while(Drop(tokens, 2))
        ELSE IF t1 = KW("For") /\ t2 = LPAREN THEN parse_for(Drop(tokens, 2))
        ELSE IF t1 \in {KW("Return"), KW("Break"), KW("Continue")}
             THEN parse_jump(tokens, parse_semicolon)
        ELSE IF t1 = LBRACKET THEN parse_block_statements(parse_statements(Drop(tokens, 1)))
        ELSE SimpleStatement(S_Expr(None), parse_expr(tokens), parse_semicolon)

\* parse_statements, after `let (statement_option, tokens) = parse_statement(tokens, true)?`
parse_statements_first(s) ==
    IF ~s.ok THEN s
    ELSE IF s.v = None THEN ParseOk(<<>>, s.rest)
    ELSE Cons(s.v, parse_statements(s.rest))

\* parse_statements
parse_statements(tokens) == parse_statements_first(parse_statement(tokens, TRUE))

\* parse_proc: which arm of the match the slice takes
parse_proc_head(tokens) ==
    IF Tok(tokens, 1) = KW("Proc") /\ Tok(tokens, 2).k = "KW" /\ Tok(tokens, 3) = LPAREN
    THEN "keyword"
    ELSE IF Tok(tokens, 1) = KW("Proc") /\ Tok(tokens, 2).k = "ID" /\ Tok(tokens, 3) = LPAREN
    THEN "proc"
    ELSE "none"

\* parse_proc, after the body block
parse_proc_body(name, params, b) ==
    IF ~b.ok THEN b ELSE ParseOk(SugaredProcedure(name, params, b.v), b.rest)

\* parse_proc: v is None for Option::None
parse_proc(tokens) ==
    LET head == parse_proc_head(tokens)
        p == parse_params(Drop(tokens, 3))
    IN  IF head = "keyword" THEN ParseErr(KeywordAsProc(tokens[2].kw))
        ELSE IF head = "proc"
        THEN IF ~p.ok THEN p
             ELSE parse_proc_body(tokens[2].id, p.v, parse_block(parse_statement(p.rest, TRUE)))
        ELSE ParseOk(None, tokens)

\* the duplicate test of parse_procs looking only at the next procedure
SameNamed_NextOnly(rest_procs, name) == rest_procs # <<>> /\ rest_procs[1].name = name

\* rest_procs.iter().find(|p| p.name == proc.name).is_some()
SameNamed(rest_procs, name) == \E i \in 1..Len(rest_procs) : rest_procs[i].name = name

RECURSIVE parse_procs(_)

\* parse_procs, after `let (mut rest_procs, tokens) = parse_procs(tokens)?`
parse_procs_rest(proc, r) ==
    IF ~r.ok THEN r
    ELSE IF SameNamed(r.v, proc.name) THEN ParseErr(MultipleSameNamedProcs(proc.name))
    ELSE ParseOk(<<proc>> \o r.v, r.rest)

\* parse_procs, after `let (proc_option, tokens) = parse_proc(tokens)?`
parse_procs_first(p) ==
    IF ~p.ok THEN p
    ELSE IF p.v = None THEN ParseOk(<<>>, p.rest)
    ELSE parse_procs_rest(p.v, parse_procs(p.rest))

\* parse_procs
parse_procs(tokens) == parse_procs_first(parse_proc(tokens))

----------------------------------------------------------------------------
(* parser.rs: parse_program.                                               *)

\* SelectProcs keeping every procedure
SelectProcs_KeepAll(procs, keep_main) == procs

\* parse_program, after parse_procs: desugar every procedure, split off main
\* .partition(|proc| proc.name == "main"): one side of the partition
SelectProcs(procs, keep_main) ==
    LET RECURSIVE Sel(_)
        Sel(ps) == IF ps = <<>> THEN <<>>
                   ELSE IF (Head(ps).name = "main") = keep_main
                        THEN <<Head(ps)>> \o Sel(Tail(ps))
                        ELSE Sel(Tail(ps))
    IN  Sel(procs)

parse_program(sugared_procs) ==
    LET desugared_procs == [i \in 1..Len(sugared_procs) |->
                               Procedure(sugared_procs[i].name, sugared_procs[i].params,
                                         desugar_statement(sugared_procs[i].body))]
        main_procs == SelectProcs(desugared_procs, TRUE)
        procs == SelectProcs(desugared_procs, FALSE)
    IN  IF main_procs = <<>> THEN [ok |-> FALSE, err |-> NoMain]
        ELSE [ok |-> TRUE, program |-> Program(procs, main_procs[1].body)]

\* parse_program, after `let (procedures, rest) = parse_procs(tokens)?`: no
\* token left over, then the desugaring and the split above
parse_program_procs(r) ==
    IF ~r.ok THEN r
    ELSE IF r.rest # <<>> THEN ParseErr(unexpected_token(r.rest))
    ELSE parse_program(r.v)

\* parse_program on the token slice
parse_program_tokens(tokens) == parse_program_procs(parse_procs(tokens))

----------------------------------------------------------------------------
(* Inputs: Linger programs, as the parser's procedure lists.               *)

MaxNest == 2
MaxArgs == 3
MaxElseIfs == 2
MaxBody == 2

\* the sequences over S of length at most n
Seqs(S, n) == UNION { [1..k -> S] : k \in 0..n }

Txt(ch) == E_Str(<<ch>>)
Print1(e) == S_Expr(E_PrimitiveCall(<<e>>))
Mark(ch) == Print1(Txt(ch))
T == E_Bool(TRUE)
F == E_Bool(FALSE)
Main(ss) == SugaredProcedure("main", <<>>, S_Block(ss))
Call0(f) == E_Call(f, <<>>)

\* a statement nested in blocks and if statements, outermost first
WrapKinds == {"block", "then", "else"}
WrapOne(kind, s) ==
    CASE kind = "block" -> S_Block(<<s>>)
      [] kind = "then" -> SugaredIf(T, S_Block(<<s>>), <<>>, None)
      [] kind = "else" -> SugaredIf(F, S_Block(<<>>), <<>>, S_Block(<<s>>))
      [] kind = "while" -> S_Block(<<S_Let("w", T), S_While(E_Var("w"), S_Block(<<s, Mark("x")>>))>>)

RECURSIVE Wrap(_, _)
Wrap(s, path) == IF path = <<>> THEN s ELSE WrapOne(Head(path), Wrap(s, Tail(path)))

Signals == {S_Break, S_Continue}

\* two nested loops of two iterations each, the signal in the inner one
LoopProgram(path, sig) ==
    <<Main(<<S_Let("a", T), S_Let("b", T),
             S_While(E_Var("a"), S_Block(<<
                 S_Assign("a", E_Var("b")), S_Assign("b", F),
                 S_Let("i", T), S_Let("j", T),
                 S_While(E_Var("i"), S_Block(<<
                     S_Assign("i", E_Var("j")), S_Assign("j", F),
                     Mark("i"), Wrap(sig, path), Mark("x")>>)),
                 Mark("o")>>)),
             Mark("z")>>)>>

LoopPrograms == { LoopProgram(path, sig) : path \in Seqs(WrapKinds, MaxNest), sig \in Signals }

\* a signal with no loop around it in its call body: in main, in a lambda
\* body (braced or not) and in a procedure body, the calls made from a loop
NoLoopMain(path, sig) == <<Main(<<Mark("a"), Wrap(sig, path), Mark("b")>>)>>
CalledInLoop(callee) ==
    <<S_Let("i", T),
      S_While(E_Var("i"), S_Block(<<S_Assign("i", F), S_Expr(Call0(callee)), Mark("x")>>)),
      Mark("z")>>
NoLoopLambda(path, sig, braced) ==
    <<Main(<<S_Let("f", SugaredLambda(<<>>, IF braced THEN S_Block(<<Wrap(sig, path)>>)
                                                    ELSE Wrap(sig, path)))>>
            \o CalledInLoop(E_Var("f")))>>
NoLoopProc(path, sig) ==
    <<SugaredProcedure("p", <<>>, S_Block(<<Wrap(sig, path)>>)), Main(CalledInLoop(E_Var("p")))>>

NoLoopPrograms ==
    UNION { {NoLoopMain(path, sig), NoLoopLambda(path, sig, TRUE),
             NoLoopLambda(path, sig, FALSE), NoLoopProc(path, sig)} :
            path \in Seqs(WrapKinds, MaxNest), sig \in Signals }

\* a return nested in blocks, if statements and loops: in a lambda body
\* called from a loop of main, and in main itself
ReturnWrapKinds == WrapKinds \cup {"while"}
ReturnExprs == {None, E_Num(7)}
ReturnLambda(path, e) ==
    <<Main(<<S_Let("f", SugaredLambda(<<>>, S_Block(<<Mark("a"), Wrap(S_Return(e), path), Mark("x")>>))),
             S_Let("i", T),
             S_While(E_Var("i"), S_Block(<<S_Assign("i", F), S_Let("r", Call0(E_Var("f"))),
                                           Print1(E_Var("r")), Mark("c")>>)),
             Mark("z")>>)>>
ReturnMain(path, e) == <<Main(<<Mark("a"), Wrap(S_Return(e), path), Mark("x")>>)>>

ReturnPrograms ==
    UNION { {ReturnLambda(path, e), ReturnMain(path, e)} :
            path \in Seqs(ReturnWrapKinds, MaxNest), e \in ReturnExprs }

\* a lambda that prints ch and returns n
Teller(ch, n) == SugaredLambda(<<>>, S_Block(<<Mark(ch), S_Return(E_Num(n))>>))
TellerLets == <<S_Let("one", Teller("1", 1)), S_Let("two", Teller("2", 2))>>
TellerArgs == <<Call0(E_Var("one")), Call0(E_Var("two"))>>

\* a procedure and a lambda made in one call and invoked from another; the
\* body reads the name v
ScopeNames == {"a", "b", "q", "y", "g", "one"}
ScopeProc(v) ==
    <<SugaredProcedure("p", <<"a", "b">>, S_Block(<<S_Return(E_Var(v))>>)),
      Main(TellerLets \o <<S_Let("y", E_Num(5)), S_Return(E_Call(E_Var("p"), TellerArgs))>>)>>
ScopeLambda(v) ==
    <<Main(TellerLets \o
           <<S_Let("mk", SugaredLambda(<<>>, S_Block(<<S_Let("q", E_Num(3)),
                             S_Return(SugaredLambda(<<"a", "b">>, S_Expr(E_Var(v))))>>))),
             S_Let("call", SugaredLambda(<<"g">>, S_Block(<<S_Let("y", E_Num(5)),
                             S_Return(E_Call(E_Var("g"), TellerArgs))>>))),
             S_Return(E_Call(E_Var("call"), <<Call0(E_Var("mk"))>>))>>)>>

ScopePrograms == UNION { {ScopeProc(v), ScopeLambda(v)} : v \in ScopeNames }

\* an outer variable changed between the creation of a lambda and its call
ClosureNums == {1, 2}
ClosureMain(a, b, rebind) ==
    <<Main(<<S_Let("x", E_Num(a)), S_Let("f", SugaredLambda(<<>>, S_Expr(E_Var("x")))),
             IF rebind THEN S_Let("x", E_Num(b)) ELSE S_Assign("x", E_Num(b)),
             S_Return(Call0(E_Var("f")))>>)>>
ClosureReturned(a, b) ==
    <<SugaredProcedure("mk", <<"v">>, S_Block(<<S_Let("g", SugaredLambda(<<>>, S_Expr(E_Var("v")))),
                                                S_Assign("v", E_Num(b)), S_Return(E_Var("g"))>>)),
      Main(<<S_Let("f", E_Call(E_Var("mk"), <<E_Num(a)>>)), S_Return(Call0(E_Var("f")))>>)>>
ClosureEscaped(a, b) ==
    <<Main(<<S_Let("x", E_Num(a)),
             S_Let("mk", SugaredLambda(<<>>, S_Block(<<S_Return(SugaredLambda(<<>>, S_Expr(E_Var("x"))))>>))),
             S_Let("f", Call0(E_Var("mk"))),
             S_Assign("x", E_Num(b)),
             S_Return(Call0(E_Var("f")))>>)>>

ClosurePrograms ==
    UNION { {ClosureMain(a, b, TRUE), ClosureMain(a, b, FALSE), ClosureReturned(a, b),
             ClosureEscaped(a, b)} : a \in ClosureNums, b \in ClosureNums }

\* a callee of n_params parameters called with n_args printing arguments
ParamNames == <<"a", "b">>
ArgMarks == <<"1", "2", "3", "4", "5">>
ArityKinds == {"var", "anon", "proc"}
ArityBody == S_Block(<<Mark("b"), S_Return(E_Num(0))>>)
ArityArgs(n_args) == [i \in 1..n_args |-> E_PrimitiveCall(<<Txt(ArgMarks[i])>>)]
ArityProgram(n_params, n_args, kind) ==
    LET params == SubSeq(ParamNames, 1, n_params)
        lam == SugaredLambda(params, ArityBody)
    IN  CASE kind = "var" ->
               <<Main(<<S_Let("f", lam), S_Expr(E_Call(E_Var("f"), ArityArgs(n_args))), Mark("z")>>)>>
          [] kind = "anon" ->
               <<Main(<<S_Expr(E_Call(lam, ArityArgs(n_args))), Mark("z")>>)>>
          [] kind = "proc" ->
               <<SugaredProcedure("f", params, ArityBody),
                 Main(<<S_Expr(E_Call(E_Var("f"), ArityArgs(n_args))), Mark("z")>>)>>

ArityPrograms ==
    { ArityProgram(n_params, n_args, kind) :
      n_params \in 0..Len(ParamNames), n_args \in 0..MaxArgs, kind \in ArityKinds }

\* assignments: to a name never bound, to a bound name, and from inside a
\* closure to a name bound outside it
AssignUnbound == <<Main(<<S_Assign("x", E_Num(1)), S_Return(E_Var("x"))>>)>>
AssignBound == <<Main(<<S_Let("x", E_Num(1)), S_Assign("x", E_Num(2)), S_Return(E_Var("x"))>>)>>
AssignCaptured ==
    <<Main(<<S_Let("x", E_Num(1)),
             S_Let("f", SugaredLambda(<<>>, S_Block(<<S_Assign("x", E_Num(2))>>))),
             S_Expr(Call0(E_Var("f"))), S_Return(E_Var("x"))>>)>>

AssignPrograms == {AssignUnbound, AssignBound, AssignCaptured}

\* if (k1()) { print("A") } else if (k2()) { print("B") } .. else { print("e") }
\* where the lambda k_j prints j and returns conds[j]
CondNames == <<"k1", "k2", "k3", "k4">>
BranchMarks == <<"A", "B", "C", "D">>
CondLets(conds) ==
    [j \in 1..Len(conds) |->
        S_Let(CondNames[j], SugaredLambda(<<>>, S_Block(<<Mark(ArgMarks[j]),
                                                          S_Return(E_Bool(conds[j]))>>)))]
IfProgram(conds, has_else) ==
    <<Main(CondLets(conds) \o
           <<SugaredIf(Call0(E_Var(CondNames[1])), S_Block(<<Mark(BranchMarks[1])>>),
                       [j \in 1..(Len(conds) - 1) |->
                           ElseIf(Call0(E_Var(CondNames[j + 1])), S_Block(<<Mark(BranchMarks[j + 1])>>))],
                       IF has_else THEN S_Block(<<Mark("e")>>) ELSE None),
             Mark("z")>>)>>

CondLists == Seqs(BOOLEAN, MaxElseIfs + 1) \ {<<>>}
IfPrograms == { IfProgram(conds, has_else) : conds \in CondLists, has_else \in BOOLEAN }

\* for (let c = true; c; c = d) { body } after let d = true; let e = false, and
\* the loop written by hand as let c = true; while (c) { body; c = d; }
ForPrelude == <<S_Let("d", T), S_Let("e", F)>>
ForInit == S_Let("c", T)
ForCond == E_Var("c")
ForStep == S_Assign("c", E_Var("d"))
ForBodyStatements ==
    { S_Let("d", E_Var("e")),
      S_Assign("d", F),
      S_Assign("e", T),
      S_Let("x", E_Var("d")),
      S_Let("x", E_Var("u")),
      Mark("p"),
      SugaredIf(E_Var("d"), S_Block(<<S_Assign("d", F)>>), <<>>, S_Block(<<S_Break>>)),
      SugaredIf(E_Var("e"), S_Block(<<S_Return(E_Var("c"))>>), <<>>, None),
      S_Break,
      S_Return(E_Num(7)) }
ForBodies == Seqs(ForBodyStatements, MaxBody)
ForProgram(body) ==
    <<Main(ForPrelude \o <<SugaredFor(ForInit, ForCond, ForStep, body), Mark("z")>>)>>
HandWrittenProgram(body) ==
    <<Main(ForPrelude \o <<ForInit, S_While(ForCond, S_Block(body \o <<ForStep>>)), Mark("z")>>)>>

ForPrograms == { ForProgram(body) : body \in ForBodies }

\* proc p(a) { .. } and proc q() { return 3; } declared around main in any
\* order; main { let y = 5; return p(1); }; the body of p reads its
\* parameter, its own local, a local of main, q, or p
ProcKinds == {"param", "local", "mainlocal", "other", "self"}
ProcBody(kind) ==
    CASE kind = "param" -> <<S_Return(E_Var("a"))>>
      [] kind = "local" -> <<S_Let("t", E_Num(2)), S_Return(E_Var("t"))>>
      [] kind = "mainlocal" -> <<S_Return(E_Var("y"))>>
      [] kind = "other" -> <<S_Return(Call0(E_Var("q")))>>
      [] kind = "self" -> <<S_Return(E_Call(E_Var("p"), <<E_Var("a")>>))>>
ProcP(kind) == SugaredProcedure("p", <<"a">>, S_Block(ProcBody(kind)))
ProcQ == SugaredProcedure("q", <<>>, S_Block(<<S_Return(E_Num(3))>>))
ProcMain == Main(<<S_Let("y", E_Num(5)), S_Return(E_Call(E_Var("p"), <<E_Num(1)>>))>>)
ProcOrders == {<<1, 2, 3>>, <<1, 3, 2>>, <<2, 1, 3>>, <<2, 3, 1>>, <<3, 1, 2>>, <<3, 2, 1>>}
ProcProgram(kind, order) ==
    LET decls == <<ProcP(kind), ProcQ, ProcMain>>
    IN  [i \in 1..3 |-> decls[order[i]]]

ProcPrograms == { ProcProgram(kind, order) : kind \in ProcKinds, order \in ProcOrders }

\* main { return l + r; } and main { return op .. ; } for the operators the
\* evaluator leaves out
Operands ==
    {E_Num(1), E_Num(21), E_Num(MaxNum), E_Str(<<"a">>), E_Str(<<"b", "c">>),
     E_Bool(TRUE), E_PrimitiveCall(<<Txt("v")>>), SugaredLambda(<<>>, S_Block(<<>>))}
PlusProgram(l, r) == <<Main(<<S_Return(E_Binary("Plus", l, r))>>)>>
BinaryTodoOps ==
    {"Minus", "Times", "Mod", "Div", "Eq", "Ne", "LT", "GT", "LTE", "GTE", "LogicAnd", "LogicOr"}
UnaryOps == {"Minus", "LogicNot", "PreIncrement", "PreDecrement", "PostIncrement", "PostDecrement"}
TodoExprs ==
    { E_Binary(op, E_Num(2), E_Num(1)) : op \in BinaryTodoOps }
        \cup { E_Binary(op, E_Bool(TRUE), E_Bool(FALSE)) : op \in {"LogicAnd", "LogicOr", "Eq"} }
        \cup { E_Unary(op, E_Var("x")) : op \in UnaryOps }
        \cup { E_Unary("Minus", E_Num(1)), E_Unary("LogicNot", E_Bool(TRUE)) }
TodoProgram(e) == <<Main(<<S_Let("x", E_Num(1)), Mark("m"), S_Return(e)>>)>>
ExprPrograms ==
    { PlusProgram(l, r) : l \in Operands, r \in Operands }
        \cup { TodoProgram(e) : e \in TodoExprs }

\* references to the name main: read in main, called in main, read in a
\* procedure, and read in main after main has bound the name itself
MainKinds == {"read", "call", "proc", "let", "assign"}
MainProgram(kind) ==
    CASE kind = "read" -> <<Main(<<Mark("m"), S_Return(E_Var("main"))>>)>>
      [] kind = "call" -> <<Main(<<Mark("m"), S_Expr(Call0(E_Var("main"))), Mark("x")>>)>>
      [] kind = "proc" -> <<SugaredProcedure("p", <<>>, S_Block(<<S_Return(E_Var("main"))>>)),
                            Main(<<Mark("m"), S_Return(Call0(E_Var("p")))>>)>>
      [] kind = "let" -> <<Main(<<Mark("m"), S_Let("main", E_Num(1)), S_Return(E_Var("main"))>>)>>
      [] kind = "assign" -> <<Main(<<Mark("m"), S_Assign("main", E_Num(2)), S_Return(E_Var("main"))>>)>>

MainPrograms == { MainProgram(kind) : kind \in MainKinds }

\* main { return print(a1, .., an); } over numbers, strings, booleans and a
\* print call as arguments
PrintOperands ==
    {E_Num(7), E_Num(21), E_Str(<<"a", "b">>), E_Str(<<>>), E_Bool(TRUE), E_Bool(FALSE),
     E_PrimitiveCall(<<Txt("n")>>)}
PrintProgram(args) == <<Main(<<S_Return(E_PrimitiveCall(args))>>)>>
PrintPrograms == { PrintProgram(args) : args \in Seqs(PrintOperands, MaxArgs) }

\* main { let e = ..; for (let c = true; c; c = false) { <body> } print("z"); }
\* with continue at the end of the body, after a print, in a nested block,
\* under a condition, and under a condition the body turns off
ContinueKinds == {"none", "bare", "after", "nested", "if", "once"}
ContinueBody(kind) ==
    CASE kind = "none" -> <<Mark("p")>>
      [] kind = "bare" -> <<S_Continue>>
      [] kind = "after" -> <<Mark("p"), S_Continue>>
      [] kind = "nested" -> <<Mark("p"), S_Block(<<S_Continue>>), Mark("q")>>
      [] kind = "if" ->
           <<Mark("p"), SugaredIf(E_Var("e"), S_Block(<<S_Continue>>), <<>>, None), Mark("q")>>
      [] kind = "once" ->
           <<Mark("p"),
             SugaredIf(E_Var("e"), S_Block(<<S_Assign("e", F), S_Continue>>), <<>>, None),
             Mark("q")>>
ContinueProgram(kind, e) ==
    <<Main(<<S_Let("e", E_Bool(e)),
             SugaredFor(S_Let("c", T), E_Var("c"), S_Assign("c", F), ContinueBody(kind)),
             Mark("z")>>)>>
ContinuePrograms == { ContinueProgram(kind, e) : kind \in ContinueKinds, e \in BOOLEAN }

\* { let x = 2; let x = 3; } nested in blocks, if branches and the body of
\* a loop of one iteration, x bound or not before; then x is read: in the
\* same call body (main, a procedure, a lambda), or by main after the call
\* has returned
NestKinds == {"block", "then", "else", "loop"}
NestOne(kind, s) ==
    IF kind = "loop"
    THEN S_Block(<<S_Let("w", T), S_While(E_Var("w"), S_Block(<<S_Assign("w", F), s>>))>>)
    ELSE WrapOne(kind, s)
RECURSIVE Nest(_, _)
Nest(s, path) == IF path = <<>> THEN s ELSE NestOne(Head(path), Nest(s, Tail(path)))
NestedLets(path, bound) ==
    (IF bound THEN <<S_Let("x", E_Num(1))>> ELSE <<>>)
        \o <<Nest(S_Block(<<S_Let("x", E_Num(2)), S_Let("x", E_Num(3))>>), path), Mark("m")>>
LetPlaces == {"main", "proc", "lambda", "after", "outer"}
LetProgram(place, path, bound) ==
    CASE place = "main" -> <<Main(NestedLets(path, bound) \o <<S_Return(E_Var("x"))>>)>>
      [] place = "proc" ->
           <<SugaredProcedure("p", <<>>, S_Block(NestedLets(path, bound) \o <<S_Return(E_Var("x"))>>)),
             Main(<<S_Return(Call0(E_Var("p")))>>)>>
      [] place = "lambda" ->
           <<Main(<<S_Let("f", SugaredLambda(<<>>, S_Block(NestedLets(path, bound)
                                                            \o <<S_Return(E_Var("x"))>>))),
                    S_Return(Call0(E_Var("f")))>>)>>
      [] place = "after" ->
           <<SugaredProcedure("p", <<>>, S_Block(NestedLets(path, bound))),
             Main(<<S_Expr(Call0(E_Var("p"))), S_Return(E_Var("x"))>>)>>
      [] place = "outer" ->
           <<Main(<<S_Let("x", E_Num(1)),
                    S_Let("f", SugaredLambda(<<>>, S_Block(NestedLets(path, bound)))),
                    S_Expr(Call0(E_Var("f"))), S_Return(E_Var("x"))>>)>>
LetPrograms ==
    { LetProgram(place, path, bound) :
        place \in LetPlaces, path \in Seqs(NestKinds, MaxNest), bound \in BOOLEAN }

SugaredPrograms ==
    LetPrograms \cup ContinuePrograms \cup LoopPrograms \cup NoLoopPrograms \cup ReturnPrograms \cup ScopePrograms
        \cup ClosurePrograms \cup ArityPrograms \cup AssignPrograms \cup IfPrograms
        \cup ForPrograms \cup ProcPrograms \cup ExprPrograms
        \cup MainPrograms \cup PrintPrograms

Programs == { parse_program(sp).program : sp \in { q \in SugaredPrograms : parse_program(q).ok } }

----------------------------------------------------------------------------
(* The machine.                                                            *)

Init ==
    /\ prog \in Programs
    /\ overflow_checks \in BOOLEAN
    /\ ctl = Start
    /\ kont = <<>>
    /\ heap = <<>>
    /\ out = <<>>

A_interp_program == AtStart(Cfg) /\ Set(interp_program(Cfg, prog))
A_interp_program_k == StatementReturnsTo(Cfg, "Main") /\ Set(interp_program_k(Cfg))

A_Statement_Expr == AtStatement(Cfg, "Expr") /\ Set(Statement_Expr(Cfg))
A_Statement_Expr_k == ExpressionReturnsTo(Cfg, "Expr") /\ Set(Statement_Expr_k(Cfg))
A_Statement_Let == AtStatement(Cfg, "Let") /\ Set(Statement_Let(Cfg))
A_Statement_Let_k == ExpressionReturnsTo(Cfg, "Let") /\ Set(Statement_Let_k(Cfg))
A_Statement_Assign == AtStatement(Cfg, "Assign") /\ Set(Statement_Assign(Cfg))
A_Statement_Assign_k == ExpressionReturnsTo(Cfg, "Assign") /\ Set(Statement_Assign_k(Cfg))
A_Statement_If == AtStatement(Cfg, "If") /\ Set(Statement_If(Cfg))
A_Statement_If_k == ExpressionReturnsTo(Cfg, "If") /\ Set(Statement_If_k(Cfg))
A_Statement_While == AtStatement(Cfg, "While") /\ Set(Statement_While(Cfg))
A_Statement_While_k == ExpressionReturnsTo(Cfg, "WhileCond") /\ Set(Statement_While_k(Cfg))
A_Statement_While_body_k == StatementReturnsTo(Cfg, "WhileBody") /\ Set(Statement_While_body_k(Cfg))
A_Statement_Return == AtStatement(Cfg, "Return") /\ Set(Statement_Return(Cfg))
A_Statement_Return_k == ExpressionReturnsTo(Cfg, "Return") /\ Set(Statement_Return_k(Cfg))
A_Statement_Break == AtStatement(Cfg, "Break") /\ Set(Statement_Break(Cfg))
A_Statement_Continue == AtStatement(Cfg, "Continue") /\ Set(Statement_Continue(Cfg))
A_Statement_Block == AtStatement(Cfg, "Block") /\ Set(Statement_Block(Cfg))
A_Statement_Block_k == StatementReturnsTo(Cfg, "Block") /\ Set(Statement_Block_k(Cfg))

A_Expr_Literal == AtExpression(Cfg, {"Num", "Bool", "Str"}) /\ Set(Expr_Literal(Cfg))
A_Expr_Proc == AtExpression(Cfg, {"Proc"}) /\ Set(Expr_Proc(Cfg))
A_Expr_Var == AtExpression(Cfg, {"Var"}) /\ Set(Expr_Var(Cfg))
A_Expr_Binary_Plus == AtExpression(Cfg, {"Binary"}) /\ ~IsTodo(ctl.e) /\ Set(Expr_Binary_Plus(Cfg))
A_Expr_Binary_Plus_k == ExpressionReturnsTo(Cfg, "PlusLeft") /\ Set(Expr_Binary_Plus_k(Cfg))
A_Expr_Binary_Plus_kk == ExpressionReturnsTo(Cfg, "PlusRight") /\ Set(Expr_Binary_Plus_kk(Cfg))
A_Expr_Todo == AtExpression(Cfg, {"Binary", "Unary"}) /\ IsTodo(ctl.e) /\ Set(Expr_Todo(Cfg))
A_Expr_Call == AtExpression(Cfg, {"Call"}) /\ Set(Expr_Call(Cfg))
A_Expr_Call_k == ExpressionReturnsTo(Cfg, "Callee") /\ Set(Expr_Call_k(Cfg))
A_Expr_Call_arg_k == ExpressionReturnsTo(Cfg, "Args") /\ Set(Expr_Call_arg_k(Cfg))
A_Expr_Call_body_k == StatementReturnsTo(Cfg, "Body") /\ Set(Expr_Call_body_k(Cfg))
A_Expr_Print == AtExpression(Cfg, {"PrimitiveCall"}) /\ Set(Expr_Print(Cfg))
A_Expr_Print_k == ExpressionReturnsTo(Cfg, "Print") /\ Set(Expr_Print_k(Cfg))

Next ==
    \/ A_interp_program
    \/ A_interp_program_k
    \/ A_Statement_Expr
    \/ A_Statement_Expr_k
    \/ A_Statement_Let
    \/ A_Statement_Let_k
    \/ A_Statement_Assign
    \/ A_Statement_Assign_k
    \/ A_Statement_If
    \/ A_Statement_If_k
    \/ A_Statement_While
    \/ A_Statement_While_k
    \/ A_Statement_While_body_k
    \/ A_Statement_Return
    \/ A_Statement_Return_k
    \/ A_Statement_Break
    \/ A_Statement_Continue
    \/ A_Statement_Block
    \/ A_Statement_Block_k
    \/ A_Expr_Literal
    \/ A_Expr_Proc
    \/ A_Expr_Var
    \/ A_Expr_Binary_Plus
    \/ A_Expr_Binary_Plus_k
    \/ A_Expr_Binary_Plus_kk
    \/ A_Expr_Todo
    \/ A_Expr_Call
    \/ A_Expr_Call_k
    \/ A_Expr_Call_arg_k
    \/ A_Expr_Call_body_k
    \/ A_Expr_Print
    \/ A_Expr_Print_k

Spec == Init /\ [][Next]_vars

\* the machine as a function: the step a configuration takes on program p,
\* or the configuration itself when it takes none
Step(c, p) ==
    CASE AtStart(c) -> interp_program(c, p)
      [] StatementReturnsTo(c, "Main") -> interp_program_k(c)
      [] AtStatement(c, "Expr") -> Statement_Expr(c)
      [] ExpressionReturnsTo(c, "Expr") -> Statement_Expr_k(c)
      [] AtStatement(c, "Let") -> Statement_Let(c)
      [] ExpressionReturnsTo(c, "Let") -> Statement_Let_k(c)
      [] AtStatement(c, "Assign") -> Statement_Assign(c)
      [] ExpressionReturnsTo(c, "Assign") -> Statement_Assign_k(c)
      [] AtStatement(c, "If") -> Statement_If(c)
      [] ExpressionReturnsTo(c, "If") -> Statement_If_k(c)
      [] AtStatement(c, "While") -> Statement_While(c)
      [] ExpressionReturnsTo(c, "WhileCond") -> Statement_While_k(c)
      [] StatementReturnsTo(c, "WhileBody") -> Statement_While_body_k(c)
      [] AtStatement(c, "Return") -> Statement_Return(c)
      [] ExpressionReturnsTo(c, "Return") -> Statement_Return_k(c)
      [] AtStatement(c, "Break") -> Statement_Break(c)
      [] AtStatement(c, "Continue") -> Statement_Continue(c)
      [] AtStatement(c, "Block") -> Statement_Block(c)
      [] StatementReturnsTo(c, "Block") -> Statement_Block_k(c)
      [] AtExpression(c, {"Num", "Bool", "Str"}) -> Expr_Literal(c)
      [] AtExpression(c, {"Proc"}) -> Expr_Proc(c)
      [] AtExpression(c, {"Var"}) -> Expr_Var(c)
      [] AtExpression(c, {"Binary"}) /\ ~IsTodo(c.ctl.e) -> Expr_Binary_Plus(c)
      [] ExpressionReturnsTo(c, "PlusLeft") -> Expr_Binary_Plus_k(c)
      [] ExpressionReturnsTo(c, "PlusRight") -> Expr_Binary_Plus_kk(c)
      [] AtExpression(c, {"Binary", "Unary"}) /\ IsTodo(c.ctl.e) -> Expr_Todo(c)
      [] AtExpression(c, {"Call"}) -> Expr_Call(c)
      [] ExpressionReturnsTo(c, "Callee") -> Expr_Call_k(c)
      [] ExpressionReturnsTo(c, "Args") -> Expr_Call_arg_k(c)
      [] StatementReturnsTo(c, "Body") -> Expr_Call_body_k(c)
      [] AtExpression(c, {"PrimitiveCall"}) -> Expr_Print(c)
      [] ExpressionReturnsTo(c, "Print") -> Expr_Print_k(c)
      [] OTHER -> c

\* the configuration reached from c on program p after at most n steps
RECURSIVE Run(_, _, _)
Run(c, p, n) ==
    IF n = 0 \/ c.ctl.m \in {"done", "err", "abort"} THEN c
    ELSE IF n = 1 THEN Step(c, p)
    ELSE Run(Run(c, p, n \div 2), p, n - (n \div 2))

InitCfg == [ctl |-> Start, kont |-> <<>>, heap |-> <<>>, out |-> <<>>, checks |-> TRUE]


----------------------------------------------------------------------------
(* Properties.                                                             *)

Terminated == ctl.m \in {"done", "err", "abort"}
ProgramOf(sugared_procs) == parse_program(sugared_procs).program

\* the loop lexically around the statement that has just returned, within
\* the current call body: the index in kont of its frame, or 0
RECURSIVE EnclosingLoop(_)
EnclosingLoop(k) ==
    IF k = <<>> THEN 0
    ELSE IF Top(k).f = "WhileBody" THEN Len(k)
    ELSE IF Top(k).f = "Block" THEN EnclosingLoop(Pop(k))
    ELSE 0

SignalInFlight == ctl.m = "sret" /\ ctl.cf \in {"Break", "Continue"}

\* one step of a break / continue signal on its way to the enclosing loop
SignalStep ==
    LET n == EnclosingLoop(kont)
        loop == kont[n]
    IN  /\ heap' = heap
        /\ out' = out
        /\ IF Len(kont) > n
           THEN ctl' = ctl /\ kont' = Pop(kont)
           ELSE IF ctl.cf = "Break"
                THEN ctl' = OkStatement(Void, "Normal") /\ kont' = SubSeq(kont, 1, n - 1)
                ELSE /\ ctl' = CallExpression(loop.env, loop.c)
                     /\ kont' = Append(SubSeq(kont, 1, n - 1), [loop EXCEPT !.f = "WhileCond"])

LoopTable ==
    { [p |-> ProgramOf(LoopProgram(path, sig)), sig |-> sig] :
      path \in Seqs(WrapKinds, MaxNest), sig \in Signals }

LoopProgramOutput(sig) ==
    IF sig = S_Break THEN <<"i", "o", "i", "o", "z">>
    ELSE <<"i", "i", "o", "i", "i", "o", "z">>

(* C1: inside any nesting of blocks and if statements within nested while  *)
(* loops, a break or continue signal leaves one nesting level per step     *)
(* without running anything else, and reaches exactly the innermost        *)
(* enclosing loop: break pops that loop alone with (Void, Normal), so the  *)
(* statement after it runs and the outer loops go on; continue makes that  *)
(* loop evaluate its condition again.  Two nested two-iteration loops      *)
(* print accordingly.                                                      *)
C1_InnermostLoop ==
    /\ [][(SignalInFlight /\ EnclosingLoop(kont) > 0) => SignalStep]_vars
    /\ [](Terminated =>
            \A r \in LoopTable :
                prog = r.p => (ctl = Done(Void) /\ out = LoopProgramOutput(r.sig)))

C1_Witness ==
    /\ SignalInFlight
    /\ EnclosingLoop(kont) > 0
    /\ Len(kont) >= EnclosingLoop(kont) + 2
    /\ \E m \in 1..(EnclosingLoop(kont) - 1) : kont[m].f = "WhileBody"

NotInLoopError(cf) == IF cf = "Break" THEN BreakNotInLoop ELSE ContinueNotInLoop

(* C2: a break (continue) signal with no loop around it in the current     *)
(* call body makes the run fail with BreakNotInLoop (ContinueNotInLoop),   *)
(* in main, in a called lambda or procedure body, and in a lambda whose    *)
(* body is the bare statement.                                             *)
C2_NoLoopFails ==
    [][(SignalInFlight /\ EnclosingLoop(kont) = 0) => ctl' = Err(NotInLoopError(ctl.cf))]_vars

ReturnInFlight == ctl.m = "sret" /\ ctl.cf = "Return"

\* one step of a return signal on its way out of the current call
ReturnStep ==
    /\ heap' = heap
    /\ out' = out
    /\ kont' = Pop(kont)
    /\ CASE Top(kont).f = "Body" -> ctl' = OkExpression(ctl.v)
         [] Top(kont).f = "Main" -> ctl' = Done(ctl.v)
         [] Top(kont).f \in {"Block", "WhileBody"} -> ctl' = ctl
         [] OTHER -> FALSE

ReturnTable ==
    { [p |-> ProgramOf(IF in_main THEN ReturnMain(path, e) ELSE ReturnLambda(path, e)),
       in_main |-> in_main, v |-> IF e = None THEN Void ELSE LiteralValue(e)] :
      path \in Seqs(ReturnWrapKinds, MaxNest), e \in ReturnExprs, in_main \in BOOLEAN }

(* C3: a return signal leaves every enclosing block and loop of the        *)
(* current call one level per step without running anything else, and      *)
(* stops at the call: the call expression yields the returned value and    *)
(* the caller carries on normally, even when the call sits in a loop of    *)
(* the caller; a return in main ends the program with the value.  A        *)
(* return without expression returns Void.                                 *)
C3_ReturnEndsCall ==
    /\ [][ReturnInFlight => ReturnStep]_vars
    /\ [][(ctl.m = "stmt" /\ ctl.s.t = "Return" /\ ctl.s.e = None /\ Bounded(Cfg))
            => (ctl' = OkStatement(Void, "Return") /\ kont' = kont)]_vars
    /\ [](Terminated =>
            \A r \in ReturnTable :
                prog = r.p =>
                    IF r.in_main
                    THEN ctl = Done(r.v) /\ out = <<"a">>
                    ELSE ctl = Done(Void) /\ out = <<"a">> \o Display(r.v) \o <<"c", "z">>)

C3_Witness ==
    /\ ReturnInFlight
    /\ ctl.v = Num(7)
    /\ \E b \in 1..Len(kont) :
          /\ kont[b].f = "Body"
          /\ Len(kont) >= b + 3
          /\ \E m \in 1..(b - 1) : kont[m].f = "WhileBody"
          /\ \E n \in (b + 1)..Len(kont) : kont[n].f = "WhileBody"

\* an expression has returned to a call that now evaluates an argument
CallEvaluatesArgument ==
    /\ ctl.m = "eret" /\ kont # <<>> /\ Top(kont).f \in {"Callee", "Args"}
    /\ ctl'.m = "expr"
\* an expression has returned to a call that now runs the body
CallEntersBody ==
    /\ ctl.m = "eret" /\ kont # <<>> /\ Top(kont).f \in {"Callee", "Args"}
    /\ ctl'.m = "stmt"

\* the next argument evaluated is the leftmost pending one, in the
\* environment of the call expression
ArgumentStep ==
    LET fr == Top(kont)
        pending == IF fr.f = "Callee" THEN fr.args ELSE fr.rest
        values == IF fr.f = "Callee" THEN <<>> ELSE Append(fr.values, ctl.v)
    IN  /\ ctl' = CallExpression(fr.env, Head(pending))
        /\ Top(kont').f = "Args"
        /\ Top(kont').rest = Tail(pending)
        /\ Top(kont').values = values
        /\ Top(kont').env = fr.env
        /\ heap' = heap

\* the body runs in one new scope whose parent is the environment captured
\* by the callee, and that binds exactly the parameters, by position
BodyStep ==
    LET fr == Top(kont)
        callee == IF fr.f = "Callee" THEN ctl.v
                  ELSE Lambda(fr.f_params, fr.f_body, fr.f_env)
        values == IF fr.f = "Callee" THEN <<>> ELSE Append(fr.values, ctl.v)
        scope == Len(heap) + 1
    IN  /\ ctl' = CallStatement(scope, callee.body, FALSE)
        /\ Len(heap') = scope
        /\ SubSeq(heap', 1, Len(heap)) = heap
        /\ heap'[scope].parent = callee.env
        /\ Len(values) = Len(callee.params)
        /\ DOMAIN heap'[scope].vars = {callee.params[i] : i \in 1..Len(values)}
        /\ \A i \in 1..Len(values) : heap'[scope].vars[callee.params[i]] = values[i]
        /\ out' = out

ScopeResult(v) ==
    CASE v = "a" -> Done(Num(1))
      [] v = "b" -> Done(Num(2))
      [] v = "q" -> Done(Num(3))
      [] OTHER -> Err(UnknownVariable(v))

ScopeTable ==
    { [p |-> ProgramOf(ScopeLambda(v)), v |-> v] : v \in ScopeNames \ {"one"} }
        \cup { [p |-> ProgramOf(ScopeProc(v)), v |-> v] : v \in ScopeNames \ {"q"} }

(* C4: a call evaluates its arguments from left to right in the            *)
(* environment of the call expression, then runs the body in one new       *)
(* scope that binds the parameters by position and whose parent is the     *)
(* environment captured by the callee: a name bound only in the caller is  *)
(* not visible in the body.                                                *)
C4_LexicalCall ==
    /\ [][CallEvaluatesArgument => ArgumentStep]_vars
    /\ [][CallEntersBody => BodyStep]_vars
    /\ [](Terminated =>
            \A r \in ScopeTable :
                prog = r.p => (ctl = ScopeResult(r.v) /\ out = <<"1", "2">>))

\* the body has failed on a name that the caller's environment binds
C4_Witness ==
    /\ ctl.m = "err" /\ ctl.err = UnknownVariable("y")
    /\ out = <<"1", "2">>
    /\ \E b \in 1..Len(kont) :
          /\ kont[b].f = "Body"
          /\ EnvGet(heap, kont[b].env, "y") = Num(5)
          /\ EnvGet(heap, kont[b].scope, "a") = Num(1)
          /\ EnvGet(heap, kont[b].scope, "b") = Num(2)

ClosureTable ==
    UNION { { [p |-> ProgramOf(ClosureMain(a, b, TRUE)), b |-> b],
              [p |-> ProgramOf(ClosureMain(a, b, FALSE)), b |-> b],
              [p |-> ProgramOf(ClosureReturned(a, b)), b |-> b],
              [p |-> ProgramOf(ClosureEscaped(a, b)), b |-> b] } :
            a \in ClosureNums, b \in ClosureNums }

ArityName(kind) == IF kind = "anon" THEN "<lambda>" ELSE "f"

ArityTable ==
    { [p |-> ProgramOf(ArityProgram(n_params, n_args, kind)),
       n_params |-> n_params, n_args |-> n_args, name |-> ArityName(kind)] :
      n_params \in 0..Len(ParamNames), n_args \in 0..MaxArgs, kind \in ArityKinds }

\* the callee value has returned to a call with another number of arguments
ArityMismatch ==
    /\ ctl.m = "eret" /\ kont # <<>> /\ Top(kont).f = "Callee"
    /\ ctl.v.k = "Lambda" /\ Len(Top(kont).args) # Len(ctl.v.params)

(* C6: a call with a number of arguments other than the callee's number    *)
(* of parameters fails at once with ArgMismatch(name, argument count,      *)
(* parameter count), name being the callee identifier or "<lambda>" for    *)
(* a callee that is not an identifier: no argument is evaluated and the    *)
(* body does not run.  The message gives the parameter count as expected   *)
(* and the argument count as got.                                          *)
C6_ArgMismatch ==
    /\ [][ArityMismatch
            => /\ ctl' = Err(ArgMismatch(Top(kont).f_name, Len(Top(kont).args), Len(ctl.v.params)))
               /\ heap' = heap /\ out' = out /\ kont' = kont]_vars
    /\ [][(ctl.m = "expr" /\ ctl.e.t = "Call" /\ Bounded(Cfg))
            => Top(kont').f_name = (IF ctl.e.f.t = "Var" THEN ctl.e.f.id ELSE "<lambda>")]_vars
    /\ [](Terminated =>
            \A r \in ArityTable :
                prog = r.p =>
                    IF r.n_params = r.n_args
                    THEN ctl = Done(Void) /\ out = SubSeq(ArgMarks, 1, r.n_args) \o <<"b", "z">>
                    ELSE /\ ctl = Err(ArgMismatch(r.name, r.n_args, r.n_params))
                         /\ out = <<>>
                         /\ DisplayRuntimeError(ctl.err) =
                              <<"procedure \"", r.name, "\" expected ">> \o DisplayNum(r.n_params)
                                  \o <<" args, instead got ">> \o DisplayNum(r.n_args))

C6_Witness ==
    /\ ctl.m = "err" /\ ctl.err = ArgMismatch("<lambda>", MaxArgs, 2)
    /\ out = <<>>
    /\ kont # <<>> /\ Top(kont).f = "Callee" /\ Len(Top(kont).args) = MaxArgs

\* the scope of the chain of env that binds id, or NoEnv
RECURSIVE BindingScope(_, _, _)
BindingScope(h, env, id) ==
    IF env = NoEnv THEN NoEnv
    ELSE IF id \in DOMAIN h[env].vars THEN env
    ELSE BindingScope(h, h[env].parent, id)

\* the value of an assignment statement has returned
AssignmentActs == ctl.m = "eret" /\ kont # <<>> /\ Top(kont).f = "Assign" /\ Bounded(Cfg)

(* C7: an assignment to a name with no binding reachable through the       *)
(* scope chain fails with UnknownVariable(name) and creates no binding;    *)
(* an assignment to a bound name changes the binding in the scope where    *)
(* it was found and no other scope.                                        *)
C7_AssignNeedsBinding ==
    [][AssignmentActs =>
         LET fr == Top(kont)
             scope == BindingScope(heap, fr.env, fr.id)
         IN  IF scope = NoEnv
             THEN ctl' = Err(UnknownVariable(fr.id)) /\ heap' = heap
             ELSE /\ ctl' = OkStatement(Void, "Normal")
                  /\ heap' = [heap EXCEPT ![scope].vars[fr.id] = ctl.v]]_vars

\* the index of the first true condition, or 0
FirstTrue(conds) ==
    IF \E j \in 1..Len(conds) : conds[j]
    THEN CHOOSE j \in 1..Len(conds) : conds[j] /\ \A i \in 1..(j - 1) : ~conds[i]
    ELSE 0

\* the conditions evaluated, then the one branch taken
IfOutput(conds, has_else) ==
    LET ft == FirstTrue(conds)
    IN  IF ft > 0 THEN SubSeq(ArgMarks, 1, ft) \o <<BranchMarks[ft]>>
        ELSE SubSeq(ArgMarks, 1, Len(conds)) \o (IF has_else THEN <<"e">> ELSE <<>>)

IfTable ==
    { [p |-> ProgramOf(IfProgram(conds, has_else)), conds |-> conds, has_else |-> has_else] :
      conds \in CondLists, has_else \in BOOLEAN }

\* the condition of an if statement has returned a boolean
IfActs ==
    /\ ctl.m = "eret" /\ kont # <<>> /\ Top(kont).f = "If" /\ Bounded(Cfg)
    /\ ctl.v.k = "Bool"

MaxSteps == 400

IsPrefix(a, b) == Len(a) <= Len(b) /\ SubSeq(b, 1, Len(a)) = a

\* two runs end alike: same result or error, same output, same bindings;
\* runs cut short have printed nothing the other does not print
RunsAgree(a, b) ==
    IF a.ctl.m \in {"done", "err", "abort"} \/ b.ctl.m \in {"done", "err", "abort"}
    THEN a.ctl = b.ctl /\ a.out = b.out /\ a.heap = b.heap
    ELSE IsPrefix(a.out, b.out) \/ IsPrefix(b.out, a.out)

ForTable ==
    { [p |-> ProgramOf(ForProgram(body)), q |-> ProgramOf(HandWrittenProgram(body))] :
      body \in ForBodies }

\* every step of the machine is the step of the function
StepIsNext == [][Cfg' = Step(Cfg, prog)]_vars

(* C9: the desugared for (init; cond; step) { body } and the hand-written  *)
(* init; while (cond) { body; step; }, run from the same start, end with   *)
(* the same result or error, the same output and the same bindings, for    *)
(* every body of up to MaxBody let, assign, print, if, break and return    *)
(* statements; after a loop that ends normally the loop variable is still  *)
(* bound.                                                                  *)
C9_ForEquivalence ==
    \A r \in ForTable :
        prog = r.p =>
            /\ ctl.m = "start" =>
                   RunsAgree(Run(InitCfg, r.p, MaxSteps), Run(InitCfg, r.q, MaxSteps))
            /\ Terminated =>
                   /\ RunsAgree(Cfg, Run(InitCfg, r.q, MaxSteps))
                   /\ ctl = Done(Void) => EnvGet(heap, 1, "c") \in {Bool(TRUE), Bool(FALSE)}

\* a for loop of two iterations has ended normally
C9_Witness ==
    /\ prog = ProgramOf(ForProgram(<<Mark("p"), S_Let("d", E_Var("e"))>>))
    /\ ctl = Done(Void)
    /\ out = <<"p", "z">>
    /\ EnvGet(heap, 1, "c") = Bool(FALSE)

\* interp_program has bound the procedures and is about to run main
BeforeMain == ctl.m = "stmt" /\ ctl.s = prog.main /\ Len(kont) = 1 /\ Top(kont).f = "Main"

ProcResult(kind) ==
    CASE kind = "param" -> Done(Num(1))
      [] kind = "local" -> Done(Num(2))
      [] kind = "mainlocal" -> Err(UnknownVariable("y"))
      [] kind = "other" -> Err(UnknownVariable("q"))
      [] kind = "self" -> Err(UnknownVariable("p"))

ProcTable ==
    { [p |-> ProgramOf(ProcProgram(kind, order)), kind |-> kind] :
      kind \in ProcKinds, order \in ProcOrders }

(* C10: when main is about to run, every procedure other than main is      *)
(* bound in the root environment, under its name, to a Lambda of its       *)
(* parameters and body whose captured environment is a scope of its own    *)
(* with no binding and no parent, wherever main is declared; so the body   *)
(* of a procedure resolves its parameters and the names it binds itself,   *)
(* and a reference in it to a local of main, to another procedure or to    *)
(* the procedure's own name fails with UnknownVariable.                    *)
C10_ProceduresCloseOverNothing ==
    /\ BeforeMain =>
          \A i \in 1..Len(prog.procedures) :
              LET pr == prog.procedures[i]
                  v == EnvGet(heap, ctl.env, pr.name)
              IN  /\ v.k = "Lambda"
                  /\ v.params = pr.params
                  /\ v.body = pr.body
                  /\ v.env \in (1..Len(heap)) \ {ctl.env}
                  /\ heap[v.env] = Scope(NoEnv, EmptyVars)
    /\ Terminated => \A r \in ProcTable : prog = r.p => ctl = ProcResult(r.kind)

\* the body of p has failed on the name p, which the root environment binds
C10_Witness ==
    /\ ctl = Err(UnknownVariable("p"))
    /\ EnvGet(heap, 1, "p").k = "Lambda"
    /\ EnvGet(heap, 1, "q").k = "Lambda"
    /\ \E b \in 1..Len(kont) : kont[b].f = "Body" /\ EnvGet(heap, kont[b].scope, "a") = Num(1)

MainResult(kind) ==
    CASE kind = "let" -> Done(Num(1))
      [] kind = "assign" -> Done(Num(2))
      [] OTHER -> Err(UnknownVariable("main"))

MainTable == { [p |-> ProgramOf(MainProgram(kind)), kind |-> kind] : kind \in MainKinds }

(* C11: the procedure named main is not among the program's procedures     *)
(* and the name main is not bound in the root environment when main's      *)
(* body starts; a reference to main from main's body or from a procedure   *)
(* fails with UnknownVariable("main") unless the program has bound the     *)
(* name itself.                                                            *)
C11_MainNotBound ==
    /\ \A i \in 1..Len(prog.procedures) : prog.procedures[i].name # "main"
    /\ BeforeMain => EnvGet(heap, ctl.env, "main") = Unbound
    /\ Terminated =>
          \A r \in MainTable : prog = r.p => (ctl = MainResult(r.kind) /\ out = <<"m">>)

\* main has tried to call itself
C11_Witness ==
    /\ prog = ProgramOf(MainProgram("call"))
    /\ ctl = Err(UnknownVariable("main"))
    /\ kont # <<>> /\ Top(kont).f = "Callee"

\* the text a print argument contributes, and what evaluating it prints
ArgumentText(e) ==
    CASE e = E_Num(7) -> <<"7">>
      [] e = E_Num(21) -> <<"2", "1">>
      [] e = E_Bool(TRUE) -> <<"t", "r", "u", "e">>
      [] e = E_Bool(FALSE) -> <<"f", "a", "l", "s", "e">>
      [] e.t = "Str" -> e.s
      [] e.t = "PrimitiveCall" -> <<"<", "v", "o", "i", "d", ">">>
ArgumentPrints(e) == IF e.t = "PrimitiveCall" THEN <<"n">> ELSE <<>>

RECURSIVE PrintedBefore(_)
PrintedBefore(args) ==
    IF args = <<>> THEN <<>> ELSE ArgumentPrints(Head(args)) \o PrintedBefore(Tail(args))
RECURSIVE SpaceJoined(_)
SpaceJoined(args) ==
    IF args = <<>> THEN <<>>
    ELSE IF Len(args) = 1 THEN ArgumentText(args[1])
    ELSE ArgumentText(args[1]) \o <<" ">> \o SpaceJoined(Tail(args))

PrintTable ==
    { [p |-> ProgramOf(PrintProgram(args)), args |-> args] : args \in Seqs(PrintOperands, MaxArgs) }

\* a print call has its last argument and writes
PrintCompletes ==
    \/ ctl.m = "expr" /\ ctl.e.t = "PrimitiveCall" /\ ctl.e.args = <<>>
    \/ ctl.m = "eret" /\ kont # <<>> /\ Top(kont).f = "Print" /\ Top(kont).rest = <<>>
\* a print call goes on to its next argument
PrintEvaluatesArgument ==
    \/ ctl.m = "expr" /\ ctl.e.t = "PrimitiveCall" /\ ctl.e.args # <<>>
    \/ ctl.m = "eret" /\ kont # <<>> /\ Top(kont).f = "Print" /\ Top(kont).rest # <<>>

PrintArgumentStep ==
    LET first == ctl.m = "expr"
        pending == IF first THEN ctl.e.args ELSE Top(kont).rest
        values == IF first THEN <<>> ELSE Append(Top(kont).values, ctl.v)
        env == IF first THEN ctl.env ELSE Top(kont).env
    IN  /\ ctl' = CallExpression(env, Head(pending))
        /\ Top(kont').f = "Print"
        /\ Top(kont').rest = Tail(pending)
        /\ Top(kont').values = values
        /\ out' = out /\ heap' = heap

(* C12: print evaluates its arguments from left to right, then appends to  *)
(* the output the display texts of their values joined by single spaces,   *)
(* with nothing after the last, and yields Void; nothing else writes to    *)
(* the output, so the output of a run is these texts in the order the      *)
(* print calls completed.                                                  *)
C12_Print ==
    /\ [][(PrintEvaluatesArgument /\ Bounded(Cfg)) => PrintArgumentStep]_vars
    /\ [][(PrintCompletes /\ Bounded(Cfg)) => (ctl' = OkExpression(Void) /\ heap' = heap)]_vars
    /\ [][out' # out => PrintCompletes]_vars
    /\ [](Terminated =>
            \A r \in PrintTable :
                prog = r.p =>
                    (ctl = Done(Void) /\ out = PrintedBefore(r.args) \o SpaceJoined(r.args)))

\* print(21, "ab", true) has written 21 ab true
C12_Witness ==
    /\ prog = ProgramOf(PrintProgram(<<E_Num(21), E_Str(<<"a", "b">>), E_Bool(TRUE)>>))
    /\ ctl = OkExpression(Void)
    /\ out = <<"2", "1", " ", "a", "b", " ", "t", "r", "u", "e">>

\* the + arm goes on to an operand
PlusOperandStep ==
    /\ (ctl.m = "expr" /\ ctl.e.t = "Binary" /\ ctl.e.op = "Plus")
          => ctl' = CallExpression(ctl.env, ctl.e.l)
    /\ (ctl.m = "eret" /\ kont # <<>> /\ Top(kont).f = "PlusLeft")
          => (ctl' = CallExpression(Top(kont).env, Top(kont).r) /\ out' = out /\ heap' = heap)

\* both operands of a + are known
PlusActs == ctl.m = "eret" /\ kont # <<>> /\ Top(kont).f = "PlusRight" /\ Bounded(Cfg)

(* C13: + evaluates its left operand, then its right operand; on two       *)
(* numbers it yields their sum, on two strings the first followed by the   *)
(* second, and on any other pair of values it fails with BadArg.           *)
C13_Plus ==
    /\ [][Bounded(Cfg) => PlusOperandStep]_vars
    /\ [][PlusActs =>
            LET l == Top(kont).l
                r == ctl.v
            IN  CASE l.k = "Num" /\ r.k = "Num" -> ctl' = OkExpression(Num(l.n + r.n))
                  [] l.k = "Str" /\ r.k = "Str" -> ctl' = OkExpression(Str(l.s \o r.s))
                  [] OTHER -> ctl'.m = "err" /\ ctl'.err.e = "BadArg"]_vars

\* the same, for the sums that an i64 holds
PlusWithinRange ==
    /\ [][Bounded(Cfg) => PlusOperandStep]_vars
    /\ [][PlusActs =>
            LET l == Top(kont).l
                r == ctl.v
            IN  CASE l.k = "Num" /\ r.k = "Num" ->
                        (l.n + r.n \in MinNum..MaxNum) => ctl' = OkExpression(Num(l.n + r.n))
                  [] l.k = "Str" /\ r.k = "Str" -> ctl' = OkExpression(Str(l.s \o r.s))
                  [] OTHER -> ctl'.m = "err" /\ ctl'.err.e = "BadArg"]_vars

(* C14: no evaluation ends in a process abort: every expression, and in    *)
(* particular every Binary and every Unary expression, evaluates to a      *)
(* Value or to a RuntimeError.                                             *)
C14_NoAbort ==
    /\ [][(ctl.m = "expr" /\ ctl.e.t \in {"Binary", "Unary"} /\ Bounded(Cfg))
            => ctl'.m \in {"expr", "eret", "err"}]_vars
    /\ [](ctl # Abort)

----------------------------------------------------------------------------
(* The parser applied to token slices. ctl holds the call: the function,   *)
(* its slice and its flag, then its result; a parsed program becomes prog. *)

MaxParen == 4
MaxOps == 3
MaxFollow == 2
MaxProcs == 3

Keywords == {"Proc", "Let", "Const", "If", "Else", "While", "For", "Return", "Break",
             "Continue", "True", "False"}

RECURSIVE Flatten(_)
Flatten(ss) == IF ss = <<>> THEN <<>> ELSE Head(ss) \o Flatten(Tail(ss))

\* a slice after an opening parenthesis
ParenAlphabet == {ID("a"), KW("If"), NUM(1), COMMA, RPAREN, THIN_ARROW, OP("Plus")}
ParenTokens == { <<LPAREN>> \o s : s \in Seqs(ParenAlphabet, MaxParen) }

\* chains of atoms and binary operators: a op b op c ..
BinaryOperators == {"LogicOr", "LogicAnd", "Eq", "Ne", "LT", "GT", "LTE", "GTE",
                    "Plus", "Minus", "Times", "Mod", "Div"}
Atoms == <<ID("a"), ID("b"), ID("c"), ID("d"), ID("e")>>
Chain(ops) == <<Atoms[1]>> \o Flatten([i \in 1..Len(ops) |-> <<OP(ops[i]), Atoms[i + 1]>>])
ExprTokens == { Chain(ops) : ops \in Seqs(BinaryOperators, MaxOps) }

\* the simple statements, without their semicolon, and their trees
SimpleTable ==
    { [toks |-> <<KW("Let"), ID("x"), ASSIGN, NUM(1)>>, s |-> S_Let("x", E_Num(1))],
      [toks |-> <<KW("Const"), ID("x"), ASSIGN, NUM(1)>>, s |-> S_Const("x", E_Num(1))],
      [toks |-> <<ID("x"), ASSIGN, NUM(1)>>, s |-> S_Assign("x", E_Num(1))],
      [toks |-> <<ID("x"), ASSIGN_OP("Plus"), NUM(1)>>,
       s |-> S_OperatorAssignment("Plus", "x", E_Num(1))],
      [toks |-> <<ID("f"), LPAREN, RPAREN>>, s |-> S_Expr(E_Call(E_Var("f"), <<>>))],
      [toks |-> <<ID("x"), DOUBLE_PLUS>>, s |-> S_Expr(E_Unary("PostIncrement", E_Var("x")))],
      [toks |-> <<KW("Return"), NUM(1)>>, s |-> S_Return(E_Num(1))],
      [toks |-> <<KW("Return")>>, s |-> S_Return(None)],
      [toks |-> <<KW("Break")>>, s |-> S_Break],
      [toks |-> <<KW("Continue")>>, s |-> S_Continue] }
Followers == Seqs({SEMICOLON, RPAREN, RBRACKET, COMMA}, MaxFollow)

\* let f = () -> <statement> ;
LambdaLet(toks) ==
    <<KW("Let"), ID("f"), ASSIGN, LPAREN, RPAREN, THIN_ARROW>> \o toks \o <<SEMICOLON>>
\* for (let i = 0; i < 1; <statement>) { }
ForWith(toks) ==
    <<KW("For"), LPAREN, KW("Let"), ID("i"), ASSIGN, NUM(0), SEMICOLON,
      ID("i"), OP("LT"), NUM(1), SEMICOLON>> \o toks \o <<RPAREN, LBRACKET, RBRACKET>>

\* a keyword where a variable name stands
KeywordAsLet(kw) == <<KW("Let"), KW(kw), ASSIGN, NUM(1), SEMICOLON>>
KeywordAsConst(kw) == <<KW("Const"), KW(kw), ASSIGN, NUM(1), SEMICOLON>>
KeywordAssigned(kw) == <<KW(kw), ASSIGN, NUM(1), SEMICOLON>>
KeywordAsAtom(kw) == <<ID("x"), ASSIGN, KW(kw), SEMICOLON>>
KeywordAsOperand(kw) == <<ID("x"), ASSIGN, NUM(1), OP("Plus"), KW(kw), SEMICOLON>>

EmptyBlock == <<LBRACKET, RBRACKET>>

\* for headers: for ( <first> <second> <third> ) { }, each clause with or
\* without its ;
ForClauses == { r.toks \o f : r \in SimpleTable, f \in {<<>>, <<SEMICOLON>>} }
ForConditions ==
    { <<ID("i"), OP("LT"), NUM(1), SEMICOLON>>, <<ID("i"), OP("LT"), NUM(1)>>, <<SEMICOLON>> }
ForHeader(first, second, third) ==
    <<KW("For"), LPAREN>> \o first \o second \o third \o <<RPAREN>> \o EmptyBlock
ForHeaders ==
    { ForHeader(first, second, third) :
        first \in ForClauses, second \in ForConditions, third \in ForClauses }

StatementInputs ==
    { [tokens |-> r.toks \o f, parse_semicolon |-> b] :
        r \in SimpleTable, f \in Followers, b \in BOOLEAN }
    \cup { [tokens |-> t, parse_semicolon |-> TRUE] :
        t \in { LambdaLet(r.toks) : r \in SimpleTable }
              \cup { ForWith(r.toks) : r \in SimpleTable }
              \cup ForHeaders
              \cup UNION { {KeywordAsLet(kw), KeywordAsConst(kw), KeywordAssigned(kw),
                            KeywordAsAtom(kw), KeywordAsOperand(kw)} : kw \in Keywords } }

\* procedures: a name and one of its texts
ProcNames == {"main", "foo", "bar"}
ProcTexts == 1..2
\* proc <name>() { } and proc <name>(a) { for (let i = 0; i < 1; i = a) { } return a; }
ProcTokens(name, text) ==
    IF text = 1 THEN <<KW("Proc"), ID(name), LPAREN, RPAREN>> \o EmptyBlock
    ELSE <<KW("Proc"), ID(name), LPAREN, ID("a"), RPAREN, LBRACKET>>
         \o ForWith(<<ID("i"), ASSIGN, ID("a")>>)
         \o <<KW("Return"), ID("a"), SEMICOLON, RBRACKET>>
ProcTree(name, text) ==
    IF text = 1 THEN SugaredProcedure(name, <<>>, S_Block(<<>>))
    ELSE SugaredProcedure(name, <<"a">>,
            S_Block(<<SugaredFor(S_Let("i", E_Num(0)), E_Binary("LT", E_Var("i"), E_Num(1)),
                                 S_Assign("i", E_Var("a")), <<>>),
                      S_Return(E_Var("a"))>>))
ProcLists == Seqs(ProcNames \X ProcTexts, MaxProcs)
ProcListTokens(l) == Flatten([i \in 1..Len(l) |-> ProcTokens(l[i][1], l[i][2])])

\* a keyword where a procedure or a parameter name stands
KeywordAsProcName(kw, after) == <<KW("Proc"), KW(kw)>> \o after
ProcNameFollowers == {<<LPAREN, RPAREN>> \o EmptyBlock, EmptyBlock, <<>>}
KeywordAsFirstParam(kw) == <<KW("Proc"), ID("foo"), LPAREN, KW(kw), RPAREN>> \o EmptyBlock
KeywordAsNextParam(kw) ==
    <<KW("Proc"), ID("foo"), LPAREN, ID("a"), COMMA, KW(kw), RPAREN>> \o EmptyBlock

\* proc main() { <statement> ; }
MainWith(toks) ==
    <<KW("Proc"), ID("main"), LPAREN, RPAREN, LBRACKET>> \o toks \o <<SEMICOLON, RBRACKET>>

ProgramTokens ==
    { ProcListTokens(l) : l \in ProcLists }
    \cup { MainWith(r.toks) : r \in SimpleTable }
    \cup { KeywordAsProcName(kw, f) : kw \in Keywords, f \in ProcNameFollowers }
    \cup { KeywordAsFirstParam(kw) : kw \in Keywords }
    \cup { KeywordAsNextParam(kw) : kw \in Keywords }

\* well-formed expressions, and each in parentheses, alone or as the left
\* operand of + 1
WrappedExprs ==
    { Chain(ops) : ops \in Seqs(BinaryOperators, 1) }
    \cup { <<KW("True")>>, <<KW("False")>>, <<NUM(1)>>, <<STR("s")>>,
           <<ID("f"), LPAREN, RPAREN>>, <<ID("f"), LPAREN, ID("a"), RPAREN>>,
           <<OP("Minus"), ID("a")>>, <<ID("a"), DOUBLE_PLUS>>,
           <<KW("True"), OP("LogicAnd"), ID("a")>>, <<NUM(1), OP("Plus"), ID("a")>>,
           <<LPAREN, NUM(1), RPAREN>>, <<LPAREN, ID("a"), RPAREN>>,
           <<LPAREN, RPAREN, THIN_ARROW, ID("a")>> }
InParentheses(e) == <<LPAREN>> \o e \o <<RPAREN>>
PlusOne == <<OP("Plus"), NUM(1)>>
WrappedTokens ==
    WrappedExprs
    \cup { InParentheses(e) \o f : e \in WrappedExprs, f \in {<<>>, PlusOne} }

ParseCall(fn, tokens, parse_semicolon) ==
    [m |-> "parse", fn |-> fn, tokens |-> tokens, parse_semicolon |-> parse_semicolon]
Parsed(call, result) ==
    [m |-> "parsed", fn |-> call.fn, tokens |-> call.tokens,
     parse_semicolon |-> call.parse_semicolon, result |-> result]

ParseInit ==
    /\ prog = None
    /\ overflow_checks = TRUE
    /\ kont = <<>>
    /\ heap = <<>>
    /\ out = <<>>
    /\ ctl \in { ParseCall("parse_terminal_expr", t, TRUE) : t \in ParenTokens }
          \cup { ParseCall("parse_expr", t, TRUE) : t \in ExprTokens \cup WrappedTokens }
          \cup { ParseCall("parse_statement", i.tokens, i.parse_semicolon) : i \in StatementInputs }
          \cup { ParseCall("parse_program", t, TRUE) : t \in ProgramTokens }

Calls(fn) == ctl.m = "parse" /\ ctl.fn = fn

P_parse_terminal_expr ==
    /\ Calls("parse_terminal_expr")
    /\ ctl' = Parsed(ctl, parse_terminal_expr(ctl.tokens))
    /\ UNCHANGED <<prog, overflow_checks, kont, heap, out>>

P_parse_expr ==
    /\ Calls("parse_expr")
    /\ ctl' = Parsed(ctl, parse_expr(ctl.tokens))
    /\ UNCHANGED <<prog, overflow_checks, kont, heap, out>>

P_parse_statement ==
    /\ Calls("parse_statement")
    /\ ctl' = Parsed(ctl, parse_statement(ctl.tokens, ctl.parse_semicolon))
    /\ UNCHANGED <<prog, overflow_checks, kont, heap, out>>

P_parse_program ==
    /\ Calls("parse_program")
    /\ ctl' = Parsed(ctl, parse_program_tokens(ctl.tokens))
    /\ prog' = IF ctl'.result.ok THEN ctl'.result.program ELSE prog
    /\ UNCHANGED <<overflow_checks, kont, heap, out>>

\* desugar_statement on a statement the parser returned
Desugared(call, core) ==
    [m |-> "desugared", fn |-> call.fn, tokens |-> call.tokens,
     parse_semicolon |-> call.parse_semicolon, statement |-> call.result.v, core |-> core]

P_desugar_statement ==
    /\ ctl.m = "parsed" /\ ctl.fn = "parse_statement"
    /\ ctl.result.ok /\ ctl.result.v # None
    /\ ctl' = Desugared(ctl, desugar_statement(ctl.result.v))
    /\ UNCHANGED <<prog, overflow_checks, kont, heap, out>>

ParseNext ==
    \/ P_desugar_statement
    \/ P_parse_terminal_expr
    \/ P_parse_expr
    \/ P_parse_statement
    \/ P_parse_program

ParseSpec == ParseInit /\ [][ParseNext]_vars

Returned(fn) == ctl.m = "parsed" /\ ctl.fn = fn

(* C15: on ( in expression position the parser first tries a parameter     *)
(* list. If the list parses and the lambda arrow follows, the result is a  *)
(* Lambda with those parameters; if the attempt fails with                 *)
(* UnexpectedToken, the slice after ( is parsed as an expression followed  *)
(* by ); if it fails with any other error, that error is the result.       *)
ParenthesizedExpr(tokens) ==
    LET x == parse_expr(tokens)
    IN  IF ~x.ok THEN x
        ELSE IF x.rest = <<>> THEN ParseErr(UnexpectedEOF)
        ELSE IF x.rest[1] = RPAREN THEN ParseOk(x.v, Tail(x.rest))
        ELSE ParseErr(Expected(RPAREN, x.rest[1]))

C15_ParenDispatch ==
    (Returned("parse_terminal_expr") /\ Tok(ctl.tokens, 1) = LPAREN) =>
        LET after == Tail(ctl.tokens)
            p == parse_params(after)
        IN  /\ (p.ok /\ Tok(p.rest, 1) = THIN_ARROW) =>
                  LET b == parse_statement(Tail(p.rest), FALSE)
                  IN  IF b.ok /\ b.v # None
                      THEN ctl.result = ParseOk(SugaredLambda(p.v, b.v), b.rest)
                      ELSE ~ctl.result.ok
            /\ (~p.ok /\ p.err.e = "UnexpectedToken") =>
                  ctl.result = ParenthesizedExpr(after)
            /\ (~p.ok /\ p.err.e # "UnexpectedToken") => ctl.result = p

C15_Witness ==
    /\ Returned("parse_terminal_expr")
    /\ ctl.tokens = <<LPAREN, NUM(1), OP("Plus"), ID("a"), RPAREN>>
    /\ ctl.result = ParseOk(E_Binary("Plus", E_Num(1), E_Var("a")), <<>>)

\* the other two cases of C15 happen too
C15_LambdaParsed ==
    /\ Returned("parse_terminal_expr")
    /\ ctl.tokens = <<LPAREN, ID("a"), RPAREN, THIN_ARROW, ID("a")>>
    /\ ctl.result = ParseOk(SugaredLambda(<<"a">>, S_Expr(E_Var("a"))), <<>>)

C15_ErrorReturned ==
    /\ Returned("parse_terminal_expr")
    /\ ctl.tokens = <<LPAREN, ID("a"), COMMA, KW("If"), RPAREN>>
    /\ ctl.result = ParseErr(KeywordAsParam("If"))

(* C16: the parse tree of an expression of atoms and binary operators      *)
(* follows the tier order or < and < equality < relational < additive <    *)
(* multiplicative, an operator of a tighter tier nested below an adjacent  *)
(* operator of a looser tier, and a chain of operators of one tier groups  *)
(* to the left: a - b - c parses as Binary(-, Binary(-, a, b), c).         *)
Tier(op) ==
    CASE op = "LogicOr" -> 1
      [] op = "LogicAnd" -> 2
      [] op \in {"Eq", "Ne"} -> 3
      [] op \in {"LT", "GT", "LTE", "GTE"} -> 4
      [] op \in {"Plus", "Minus"} -> 5
      [] op \in {"Times", "Mod", "Div"} -> 6

\* the tokens of a tree of variables and binary operators, left to right
RECURSIVE InOrder(_)
InOrder(e) ==
    IF e.t = "Binary" THEN InOrder(e.l) \o <<OP(e.op)>> \o InOrder(e.r)
    ELSE <<ID(e.id)>>

\* below an operator: to the left only operators of its tier or tighter,
\* to the right only tighter ones
RECURSIVE WellTiered(_)
WellTiered(e) ==
    e.t = "Binary" =>
        /\ e.l.t = "Binary" => Tier(e.l.op) >= Tier(e.op)
        /\ e.r.t = "Binary" => Tier(e.r.op) > Tier(e.op)
        /\ WellTiered(e.l)
        /\ WellTiered(e.r)

C16_Precedence ==
    (Returned("parse_expr") /\ ctl.tokens \in ExprTokens) =>
        /\ ctl.result.ok
        /\ ctl.result.rest = <<>>
        /\ InOrder(ctl.result.v) = ctl.tokens
        /\ WellTiered(ctl.result.v)
        /\ ctl.tokens = Chain(<<"Minus", "Minus">>) =>
              ctl.result.v = E_Binary("Minus", E_Binary("Minus", E_Var("a"), E_Var("b")),
                                      E_Var("c"))
        /\ ctl.tokens = Chain(<<"Plus", "Times">>) =>
              ctl.result.v = E_Binary("Plus", E_Var("a"), E_Binary("Times", E_Var("b"), E_Var("c")))
        /\ ctl.tokens = Chain(<<"LogicOr", "LogicAnd">>) =>
              ctl.result.v = E_Binary("LogicOr", E_Var("a"),
                                      E_Binary("LogicAnd", E_Var("b"), E_Var("c")))

\* a * b + c - d: the tighter operator below the looser ones, which group
\* to the left
C16_Witness ==
    /\ Returned("parse_expr")
    /\ ctl.tokens = Chain(<<"Times", "Plus", "Minus">>)
    /\ ctl.result.v = E_Binary("Minus",
                          E_Binary("Plus", E_Binary("Times", E_Var("a"), E_Var("b")), E_Var("c")),
                          E_Var("d"))

(* C17: every simple statement (let, assignment, expression statement,     *)
(* return, break, continue) consumes a trailing ; exactly when the caller  *)
(* asks for it. With the semicolon required, a statement followed by       *)
(* another token fails with Expected(;, that token); with the caller       *)
(* opting out (the third clause of a for header, a single-statement lambda *)
(* body) the statement is accepted without a ; and no ; is consumed.       *)
SemicolonRule(r, follow) ==
    IF ctl.parse_semicolon
    THEN /\ Tok(follow, 1) = SEMICOLON => ctl.result = ParseOk(r.s, Tail(follow))
         /\ (follow # <<>> /\ follow[1] # SEMICOLON) =>
                ctl.result = ParseErr(Expected(SEMICOLON, follow[1]))
    ELSE ctl.result = ParseOk(r.s, follow)

\* the statements of SimpleTable that parse_statement ends with
\* conditionally_consume_semicolon
FlagObeying == { r \in SimpleTable : r.s.t \in {"Let", "Const", "Assign", "OperatorAssignment", "Expr"} }

SemicolonOf(table) ==
    Returned("parse_statement") =>
        \A r \in table :
            /\ \A follow \in Followers :
                  ctl.tokens = r.toks \o follow => SemicolonRule(r, follow)
            /\ ctl.tokens = LambdaLet(r.toks) =>
                  ctl.result = ParseOk(S_Let("f", SugaredLambda(<<>>, r.s)), <<>>)
            /\ (ctl.tokens = ForWith(r.toks) /\ is_assignment(r.s)) =>
                  ctl.result = ParseOk(SugaredFor(S_Let("i", E_Num(0)),
                                                  E_Binary("LT", E_Var("i"), E_Num(1)),
                                                  r.s, <<>>), <<>>)

C17_Semicolon == SemicolonOf(SimpleTable)

\* let, const, assignment and expression statements do follow the flag
SemicolonWhenAsked == SemicolonOf(FlagObeying)

\* let f = () -> x = 1; parses, the ; ending the let
LambdaBodyWithoutSemicolon ==
    /\ Returned("parse_statement")
    /\ ctl.tokens = LambdaLet(<<ID("x"), ASSIGN, NUM(1)>>)
    /\ ctl.result.ok

\* let f = () -> return 1; does not: return takes the ; and the let has none
JumpTakesSemicolon ==
    /\ Returned("parse_statement")
    /\ ctl.tokens = LambdaLet(<<KW("Return"), NUM(1)>>)
    /\ ctl.result = ParseErr(UnexpectedEOF)

(* C18: a keyword in a name position is always rejected with the error of  *)
(* that position, carrying the keyword: KeywordAsVar after let or const,   *)
(* left of = and as an expression atom other than true and false;          *)
(* KeywordAsProc after proc as the procedure name; KeywordAsParam in a     *)
(* parameter list. No parse succeeds with a keyword as a name.             *)
KeywordAsVarRejected ==
    Returned("parse_statement") =>
        \A kw \in Keywords :
            /\ ctl.tokens \in {KeywordAsLet(kw), KeywordAsConst(kw), KeywordAssigned(kw)} =>
                  ctl.result = ParseErr(KeywordAsVar(kw))
            /\ (ctl.tokens \in {KeywordAsAtom(kw), KeywordAsOperand(kw)}
                  /\ kw \notin {"True", "False"}) =>
                  ctl.result = ParseErr(KeywordAsVar(kw))

KeywordAsParamRejected ==
    /\ Returned("parse_program") =>
          \A kw \in Keywords :
              ctl.tokens \in {KeywordAsFirstParam(kw), KeywordAsNextParam(kw)} =>
                  ctl.result = ParseErr(KeywordAsParam(kw))
    /\ Returned("parse_terminal_expr") =>
          \A i \in 2..Len(ctl.tokens) :
              (/\ ctl.tokens[i].k = "KW"
               /\ \A j \in 2..(i - 1) : ctl.tokens[j] = (IF j % 2 = 0 THEN ID("a") ELSE COMMA)
               /\ i % 2 = 0) =>
                  ctl.result = ParseErr(KeywordAsParam(ctl.tokens[i].kw))

KeywordAsProcRejected(followers) ==
    Returned("parse_program") =>
        \A kw \in Keywords, f \in followers :
            ctl.tokens = KeywordAsProcName(kw, f) => ctl.result = ParseErr(KeywordAsProc(kw))

C18_KeywordRejected ==
    /\ KeywordAsVarRejected
    /\ KeywordAsParamRejected
    /\ KeywordAsProcRejected(ProcNameFollowers)

\* the keyword positions that are rejected as C18 says: all but a keyword
\* after proc that no ( follows
KeywordRejectedBeforeParen ==
    /\ KeywordAsVarRejected
    /\ KeywordAsParamRejected
    /\ KeywordAsProcRejected({ f \in ProcNameFollowers : Tok(f, 1) = LPAREN })

\* proc if { }: the error is about the token proc
KeywordProcUnexpected ==
    /\ Returned("parse_program")
    /\ ctl.tokens = KeywordAsProcName("If", EmptyBlock)
    /\ ctl.result = ParseErr(UnexpectedToken(KW("Proc")))

(* C19: parsing a program in which two top-level procedures have the same  *)
(* name, two procedures named main included, fails with                    *)
(* MultipleSameNamedProcs(name) carrying the duplicated name, shown as     *)
(* multiple procedures with name "<name>", whatever the positions of the   *)
(* two procedures and whatever other procedures are present.               *)
ProcListTable == { [tokens |-> ProcListTokens(l), l |-> l] : l \in ProcLists }

Duplicated(l) == { n \in ProcNames : \E i, j \in 1..Len(l) : i < j /\ l[i][1] = n /\ l[j][1] = n }

C19_DuplicateNames ==
    Returned("parse_program") =>
        \A r \in ProcListTable :
            (ctl.tokens = r.tokens /\ Duplicated(r.l) # {}) =>
                \E n \in Duplicated(r.l) :
                    /\ ctl.result = ParseErr(MultipleSameNamedProcs(n))
                    /\ DisplayParseError(ctl.result.err)
                          = <<"multiple procedures with name \"", n, "\"">>

\* proc foo .. proc bar .. proc foo ..: the two are not neighbours
C19_Witness ==
    /\ Returned("parse_program")
    /\ ctl.tokens = ProcListTokens(<<<<"foo", 1>>, <<"bar", 1>>, <<"foo", 2>>>>)
    /\ ctl.result = ParseErr(MultipleSameNamedProcs("foo"))

\* two procedures named main
TwoMains ==
    /\ Returned("parse_program")
    /\ ctl.tokens = ProcListTokens(<<<<"main", 1>>, <<"foo", 2>>, <<"main", 1>>>>)
    /\ ctl.result = ParseErr(MultipleSameNamedProcs("main"))

(* C20: parsing a valid sequence of procedures none of which is named main, *)
(* the empty program included, fails with NoMain, shown as main procedure  *)
(* not found; parsing succeeds only when exactly one procedure is named    *)
(* main, and then Program.main is that procedure's desugared body and      *)
(* Program.procedures holds every other procedure.                         *)
Mains(l) == { i \in 1..Len(l) : l[i][1] = "main" }

\* the procedures of the list other than main, desugared, in their order
RECURSIVE OtherProcedures(_)
OtherProcedures(l) ==
    IF l = <<>> THEN <<>>
    ELSE LET tree == ProcTree(l[1][1], l[1][2])
         IN  (IF tree.name = "main" THEN <<>>
              ELSE <<Procedure(tree.name, tree.params, desugar_statement(tree.body))>>)
             \o OtherProcedures(Tail(l))

C20_ExactlyOneMain ==
    Returned("parse_program") =>
        \A r \in ProcListTable :
            ctl.tokens = r.tokens =>
                /\ (Mains(r.l) = {} /\ Duplicated(r.l) = {}) =>
                      /\ ctl.result = ParseErr(NoMain)
                      /\ DisplayParseError(ctl.result.err) = <<"main procedure not found">>
                      /\ prog = None
                /\ ctl.result.ok => Cardinality(Mains(r.l)) = 1
                /\ (Cardinality(Mains(r.l)) = 1 /\ Duplicated(r.l) = {}) =>
                      LET m == CHOOSE i \in Mains(r.l) : TRUE
                      IN  /\ ctl.result.ok
                          /\ ctl.result.program.main
                                = desugar_statement(ProcTree("main", r.l[m][2]).body)
                          /\ ctl.result.program.procedures = OtherProcedures(r.l)
                          /\ prog = ctl.result.program

\* proc foo(a) { .. } proc main(a) { for .. return a; } proc bar() { }
C20_Witness ==
    /\ Returned("parse_program")
    /\ ctl.tokens = ProcListTokens(<<<<"foo", 2>>, <<"main", 2>>, <<"bar", 1>>>>)
    /\ ctl.result.ok
    /\ ctl.result.program.main =
          S_Block(<<S_Block(<<S_Let("i", E_Num(0)),
                              S_While(E_Binary("LT", E_Var("i"), E_Num(1)),
                                      S_Block(<<S_Assign("i", E_Var("a"))>>))>>),
                    S_Return(E_Var("a"))>>)
    /\ Len(ctl.result.program.procedures) = 2

\* the empty program, and a program without main
EmptyProgramNoMain ==
    Returned("parse_program") /\ ctl.tokens = <<>> /\ ctl.result = ParseErr(NoMain)

OthersOnlyNoMain ==
    /\ Returned("parse_program")
    /\ ctl.tokens = ProcListTokens(<<<<"foo", 2>>, <<"bar", 1>>>>)
    /\ ctl.result = ParseErr(NoMain)


(* C21: in a for header, a first clause that parses as a statement but is  *)
(* not a let or an assignment (a call, a const declaration) fails with     *)
(* ExpectedAssignmentOrInitialization; a third clause that parses as a     *)
(* statement but is not an assignment fails with ExpectedAssignment; the   *)
(* second clause is an expression followed by ;; and the third clause is   *)
(* followed directly by ), no ; being consumed after it.                   *)
ExpectedNext(target, tokens) ==
    ParseErr(IF tokens = <<>> THEN UnexpectedEOF ELSE Expected(target, tokens[1]))

\* the header from its third clause on: step is the third clause parsed
\* without its semicolon
ForThirdClause(init, c, step) ==
    (step.ok /\ step.v # None) =>
        IF ~is_assignment(step.v) THEN ctl.result = ParseErr(ExpectedAssignment)
        ELSE IF Tok(step.rest, 1) # RPAREN THEN ctl.result = ExpectedNext(RPAREN, step.rest)
        ELSE (Drop(step.rest, 1) = EmptyBlock) =>
                 ctl.result = ParseOk(SugaredFor(init.v, c.v, step.v, <<>>), <<>>)

\* the header from its second clause on: c is the second clause parsed as
\* an expression
ForSecondClause(init, c) ==
    IF ~c.ok THEN ctl.result = c
    ELSE IF Tok(c.rest, 1) # SEMICOLON THEN ctl.result = ExpectedNext(SEMICOLON, c.rest)
    ELSE ForThirdClause(init, c, parse_statement(Drop(c.rest, 1), FALSE))

C21_ForHeader ==
    (Returned("parse_statement") /\ Tok(ctl.tokens, 1) = KW("For")
                                 /\ Tok(ctl.tokens, 2) = LPAREN) =>
        LET init == parse_statement(Drop(ctl.tokens, 2), TRUE)
        IN  (init.ok /\ init.v # None) =>
                IF init.v.t = "Let" \/ is_assignment(init.v)
                THEN ForSecondClause(init, parse_expr(init.rest))
                ELSE ctl.result = ParseErr(ExpectedAssignmentOrInitialization)

\* for (f(); i < 1; x = 1) { } and for (const x = 1; i < 1; x = 1) { } are
\* rejected for their first clause
C21_Witness ==
    /\ Returned("parse_statement")
    /\ ctl.tokens \in { ForHeader(first \o <<SEMICOLON>>,
                                  <<ID("i"), OP("LT"), NUM(1), SEMICOLON>>,
                                  <<ID("x"), ASSIGN, NUM(1)>>) :
                          first \in { <<ID("f"), LPAREN, RPAREN>>,
                                      <<KW("Const"), ID("x"), ASSIGN, NUM(1)>> } }
    /\ ctl.result = ParseErr(ExpectedAssignmentOrInitialization)

\* for (let x = 1; i < 1; f()) { } is rejected for its third clause
ForThirdClauseCall ==
    /\ Returned("parse_statement")
    /\ ctl.tokens = ForHeader(<<KW("Let"), ID("x"), ASSIGN, NUM(1), SEMICOLON>>,
                              <<ID("i"), OP("LT"), NUM(1), SEMICOLON>>,
                              <<ID("f"), LPAREN, RPAREN>>)
    /\ ctl.result = ParseErr(ExpectedAssignment)

\* for (let x = 1; i < 1; x++;) { } is rejected at the ; after the third clause
ForThirdClauseSemicolon ==
    /\ Returned("parse_statement")
    /\ ctl.tokens = ForHeader(<<KW("Let"), ID("x"), ASSIGN, NUM(1), SEMICOLON>>,
                              <<ID("i"), OP("LT"), NUM(1), SEMICOLON>>,
                              <<ID("x"), DOUBLE_PLUS, SEMICOLON>>)
    /\ ctl.result = ParseErr(Expected(RPAREN, SEMICOLON))

\* for (x++; i < 1 x += 1) { } is rejected for the missing ; of the second clause
ForSecondClauseNoSemicolon ==
    /\ Returned("parse_statement")
    /\ ctl.tokens = ForHeader(<<ID("x"), DOUBLE_PLUS, SEMICOLON>>,
                              <<ID("i"), OP("LT"), NUM(1)>>,
                              <<ID("x"), ASSIGN_OP("Plus"), NUM(1)>>)
    /\ ctl.result = ParseErr(Expected(SEMICOLON, ID("x")))

\* for (x = 1; i < 1; x += 1) { } parses
ForHeaderParsed ==
    /\ Returned("parse_statement")
    /\ ctl.tokens = ForHeader(<<ID("x"), ASSIGN, NUM(1), SEMICOLON>>,
                              <<ID("i"), OP("LT"), NUM(1), SEMICOLON>>,
                              <<ID("x"), ASSIGN_OP("Plus"), NUM(1)>>)
    /\ ctl.result.ok


(* C22: the desugarer is total over the output of the parser: every        *)
(* statement and expression that parse_statement and parse_expr produce,   *)
(* const declarations, operator assignments such as x += 1 and for loops   *)
(* with increments as clauses included, is mapped to a statement or an     *)
(* expression of the core AST (and the same surface tree always to the     *)
(* same core tree).                                                        *)
RECURSIVE CoreStatement(_), CoreExpr(_)
CoreStatement(s) ==
    CASE s.t \in {"Expr", "Let", "Assign"} -> CoreExpr(s.e)
      [] s.t = "If" -> /\ CoreExpr(s.c) /\ CoreStatement(s.th)
                       /\ (s.el = None \/ CoreStatement(s.el))
      [] s.t = "While" -> CoreExpr(s.c) /\ CoreStatement(s.body)
      [] s.t = "Block" -> \A k \in 1..Len(s.ss) : CoreStatement(s.ss[k])
      [] s.t = "Return" -> s.e = None \/ CoreExpr(s.e)
      [] s.t \in {"Break", "Continue"} -> TRUE
      [] OTHER -> FALSE
CoreExpr(e) ==
    CASE e.t \in {"Num", "Bool", "Str", "Var"} -> TRUE
      [] e.t = "Binary" -> CoreExpr(e.l) /\ CoreExpr(e.r)
      [] e.t = "Unary" -> CoreExpr(e.e)
      [] e.t = "PrimitiveCall" -> \A k \in 1..Len(e.args) : CoreExpr(e.args[k])
      [] e.t = "Call" -> CoreExpr(e.f) /\ \A k \in 1..Len(e.args) : CoreExpr(e.args[k])
      [] e.t = "Proc" -> CoreStatement(e.body)
      [] OTHER -> FALSE

\* the surface statements without a const declaration or an operator
\* assignment in them
RECURSIVE WithoutConst(_), ExprWithoutConst(_)
WithoutConst(s) ==
    CASE s.t \in {"Const", "OperatorAssignment"} -> FALSE
      [] s.t \in {"Expr", "Let", "Assign"} -> ExprWithoutConst(s.e)
      [] s.t = "SugaredIf" ->
           /\ ExprWithoutConst(s.c) /\ WithoutConst(s.th)
           /\ \A k \in 1..Len(s.else_ifs) :
                  ExprWithoutConst(s.else_ifs[k].c) /\ WithoutConst(s.else_ifs[k].b)
           /\ (s.el = None \/ WithoutConst(s.el))
      [] s.t = "While" -> ExprWithoutConst(s.c) /\ WithoutConst(s.body)
      [] s.t = "SugaredFor" ->
           /\ WithoutConst(s.init) /\ ExprWithoutConst(s.c) /\ WithoutConst(s.step)
           /\ \A k \in 1..Len(s.body) : WithoutConst(s.body[k])
      [] s.t = "Block" -> \A k \in 1..Len(s.ss) : WithoutConst(s.ss[k])
      [] s.t = "Return" -> s.e = None \/ ExprWithoutConst(s.e)
      [] OTHER -> TRUE
ExprWithoutConst(e) ==
    CASE e.t = "Binary" -> ExprWithoutConst(e.l) /\ ExprWithoutConst(e.r)
      [] e.t = "Unary" -> ExprWithoutConst(e.e)
      [] e.t = "PrimitiveCall" -> \A k \in 1..Len(e.args) : ExprWithoutConst(e.args[k])
      [] e.t = "Call" ->
           ExprWithoutConst(e.f) /\ \A k \in 1..Len(e.args) : ExprWithoutConst(e.args[k])
      [] e.t = "Lambda" -> WithoutConst(e.body)
      [] OTHER -> TRUE

C22_DesugarTotal ==
    /\ ctl.m = "desugared" => CoreStatement(ctl.core)
    /\ (Returned("parse_program") /\ ctl.result.ok) =>
           /\ CoreStatement(ctl.result.program.main)
           /\ \A k \in 1..Len(ctl.result.program.procedures) :
                  CoreStatement(ctl.result.program.procedures[k].body)

\* every statement without a const declaration or an operator assignment
\* is mapped to a core statement
DesugarTotalWithoutConst ==
    /\ (ctl.m = "desugared" /\ WithoutConst(ctl.statement)) => CoreStatement(ctl.core)
    /\ (Returned("parse_program") /\ ctl.result.ok) =>
           \A r \in SimpleTable :
               (ctl.tokens = MainWith(r.toks) /\ WithoutConst(r.s)) =>
                   CoreStatement(ctl.result.program.main)

\* for (x++; i < 1; x++) { } becomes the block of x++ and a while loop
ForIncrementsDesugared ==
    /\ ctl.m = "desugared"
    /\ ctl.statement = SugaredFor(S_Expr(E_Unary("PostIncrement", E_Var("x"))),
                                  E_Binary("LT", E_Var("i"), E_Num(1)),
                                  S_Expr(E_Unary("PostIncrement", E_Var("x"))), <<>>)
    /\ ctl.core = S_Block(<<S_Expr(E_Unary("PostIncrement", E_Var("x"))),
                            S_While(E_Binary("LT", E_Var("i"), E_Num(1)),
                                    S_Block(<<S_Expr(E_Unary("PostIncrement", E_Var("x")))>>))>>)

\* const x = 1; and x += 1; have no arm in desugar_statement
ConstUnmatched ==
    /\ ctl.m = "desugared"
    /\ ctl.statement \in {S_Const("x", E_Num(1)), S_OperatorAssignment("Plus", "x", E_Num(1))}
    /\ ctl.core = Unmatched(ctl.statement)

\* proc main() { const x = 1; } is parsed, its body without a core statement
ConstProgramUnmatched ==
    /\ Returned("parse_program")
    /\ ctl.tokens = MainWith(<<KW("Const"), ID("x"), ASSIGN, NUM(1)>>)
    /\ ctl.result.ok
    /\ ctl.result.program.main = S_Block(<<Unmatched(S_Const("x", E_Num(1)))>>)


(* C23: parentheses around a well-formed expression e do not change its    *)
(* parse: ( e ) in expression position, not followed by the lambda arrow,  *)
(* parses to the tree of e, also when e is a single identifier as in (x),  *)
(* when the parenthesized identifier is an operand as in (x) + 1, and for  *)
(* the literals (true) and (false).                                        *)
ParenthesesTransparent(exprs) ==
    Returned("parse_expr") =>
        \A e \in exprs :
            LET x == parse_expr(e)
            IN  (x.ok /\ x.rest = <<>>) =>
                    /\ ctl.tokens = InParentheses(e) => ctl.result = x
                    /\ ctl.tokens = InParentheses(e) \o PlusOne =>
                           ctl.result = ParseOk(E_Binary("Plus", x.v, E_Num(1)), <<>>)

C23_ParenthesesTransparent == ParenthesesTransparent(WrappedExprs)

\* the expressions that neither start with a keyword or a parenthesis nor
\* are an identifier alone keep their parse in parentheses
ParenthesesTransparentOtherwise ==
    ParenthesesTransparent({ e \in WrappedExprs :
                               /\ Tok(e, 1).k \notin {"KW", "LPAREN"}
                               /\ ~(Len(e) = 1 /\ e[1].k = "ID") })

\* (a + b) parses to the tree of a + b
ParenthesizedSum ==
    /\ Returned("parse_expr")
    /\ ctl.tokens = InParentheses(<<ID("a"), OP("Plus"), ID("b")>>)
    /\ ctl.result = ParseOk(E_Binary("Plus", E_Var("a"), E_Var("b")), <<>>)

\* (a) is taken for a parameter list and fails for its missing arrow
ParenthesizedIdentifier ==
    /\ Returned("parse_expr")
    /\ ctl.tokens = InParentheses(<<ID("a")>>)
    /\ ctl.result = ParseErr(UnexpectedEOF)

\* (a) + 1 fails at the + where the arrow is expected
ParenthesizedOperand ==
    /\ Returned("parse_expr")
    /\ ctl.tokens = InParentheses(<<ID("a")>>) \o PlusOne
    /\ ctl.result = ParseErr(Expected(THIN_ARROW, OP("Plus")))

\* (true) and (false) fail with KeywordAsParam
ParenthesizedLiteral ==
    /\ Returned("parse_expr")
    /\ \E kw \in {"True", "False"} :
           /\ ctl.tokens = InParentheses(<<KW(kw)>>)
           /\ ctl.result = ParseErr(KeywordAsParam(kw))


(* C24: a continue executed in the body of a for loop skips the step of    *)
(* that iteration: the Continue signal leaves the generated block          *)
(* body ++ [step] before the step runs and the loop goes straight to its   *)
(* condition, so a for loop whose condition changes through its step only  *)
(* does not end once an iteration ends with continue.                      *)
\* the Continue signal has reached the block body ++ [step] of a for loop
ContinueAtForBlock ==
    /\ ctl.m = "sret" /\ ctl.cf = "Continue" /\ Bounded(Cfg)
    /\ Len(kont) >= 2 /\ Top(kont).f = "Block" /\ Top(Pop(kont)).f = "WhileBody"
    /\ Top(kont).rest # <<>> /\ Top(kont).rest[Len(Top(kont).rest)] = S_Assign("c", F)

\* the Continue signal has reached the while loop of a for loop
ContinueAtLoop ==
    /\ ctl.m = "sret" /\ ctl.cf = "Continue" /\ Bounded(Cfg)
    /\ kont # <<>> /\ Top(kont).f = "WhileBody"

LoopVariableTrue == "c" \in DOMAIN heap[1].vars => heap[1].vars["c"] = Bool(TRUE)

\* every iteration of ContinueProgram(kind, e) ends with continue
AlwaysContinues(kind, e) == kind \in {"bare", "after", "nested"} \/ (kind = "if" /\ e)
ContinueTable ==
    { ProgramOf(ContinueProgram(x[1], x[2])) :
        x \in { y \in ContinueKinds \X BOOLEAN : AlwaysContinues(y[1], y[2]) } }

C24_ContinueSkipsStep ==
    /\ [](prog \in ContinueTable =>
             /\ ~Terminated
             /\ \A k \in 1..Len(out) : out[k] = "p"
             /\ heap # <<>> => LoopVariableTrue)
    /\ [][ContinueAtForBlock =>
             /\ ctl' = OkStatement(ctl.v, "Continue")
             /\ kont' = Pop(kont)
             /\ heap' = heap /\ out' = out]_vars
    /\ [][ContinueAtLoop =>
             /\ ctl' = CallExpression(Top(kont).env, Top(kont).c)
             /\ Len(kont') = Len(kont) /\ Top(kont').f = "WhileCond"
             /\ heap' = heap /\ out' = out]_vars

\* for (let c = true; c; c = false) { print("p"); continue; } is in its
\* fourth iteration, c still true
C24_Witness ==
    /\ prog = ProgramOf(ContinueProgram("after", FALSE))
    /\ ContinueAtLoop
    /\ out = <<"p", "p", "p", "p">>
    /\ heap[1].vars["c"] = Bool(TRUE)

\* the continue of the first iteration skips print("q") and the step, the
\* second iteration runs both and the loop ends
ContinueOnce ==
    /\ prog = ProgramOf(ContinueProgram("once", TRUE))
    /\ ctl.m = "done"
    /\ out = <<"p", "p", "q", "z">>

\* without continue the step ends the loop after one iteration
NoContinueOneIteration ==
    /\ prog = ProgramOf(ContinueProgram("none", TRUE))
    /\ ctl.m = "done"
    /\ out = <<"p", "z">>


(* C25: blocks, if branches and while bodies do not open a scope, only a   *)
(* call does. A name bound by let in a nested block, if branch or loop     *)
(* body of a call body stays bound, with its last value, after that block  *)
(* or loop and until the call returns; a let of a name already bound in    *)
(* the call body overwrites the binding and does not shadow it.            *)
\* the scope of the call whose body is running
RECURSIVE ScopeOfCall(_)
ScopeOfCall(k) ==
    IF k = <<>> THEN NoEnv
    ELSE IF Top(k).f = "Main" THEN Top(k).env
    ELSE IF Top(k).f = "Body" THEN Top(k).scope
    ELSE ScopeOfCall(Pop(k))

\* what LetProgram(place, path, bound) ends with
LetResult(place) ==
    CASE place \in {"main", "proc", "lambda"} -> Done(Num(3))
      [] place = "after" -> Err(UnknownVariable("x"))
      [] place = "outer" -> Done(Num(1))

LetActs == ctl.m = "eret" /\ kont # <<>> /\ Top(kont).f = "Let" /\ Bounded(Cfg)

LetTable ==
    { [p |-> ProgramOf(LetProgram(place, path, bound)), r |-> LetResult(place)] :
        place \in LetPlaces, path \in Seqs(NestKinds, MaxNest), bound \in BOOLEAN }

C25_NoBlockScope ==
    /\ [](Terminated => \A t \in LetTable : prog = t.p => ctl = t.r)
    /\ [](ctl.m = "stmt" => ctl.env = ScopeOfCall(kont))
    /\ [][Len(heap') # Len(heap) => (ctl.m = "start" \/ CallEntersBody)]_vars
    /\ [][LetActs =>
             LET scope == ScopeOfCall(kont)
                 id == Top(kont).id
             IN  /\ DOMAIN heap'[scope].vars = DOMAIN heap[scope].vars \cup {id}
                 /\ heap'[scope].vars[id] = ctl.v
                 /\ \A n \in 1..Len(heap) :
                        /\ heap'[n].parent = heap[n].parent
                        /\ \A y \in DOMAIN heap[n].vars :
                               (n # scope \/ y # id) => heap'[n].vars[y] = heap[n].vars[y]]_vars

\* main { let x = 1; if (true) { while (w) { w = false; { let x = 2; let x = 3; } } }
\* print("m"); return x; } has printed m: the one scope binds x to 3
C25_Witness ==
    /\ prog = ProgramOf(LetProgram("main", <<"then", "loop">>, TRUE))
    /\ out = <<"m">>
    /\ Len(heap) = 1
    /\ heap[1].vars["x"] = Num(3)

\* the lets in the body of a lambda bind in the scope of its call: x of
\* main keeps its value
LetInCallKeepsOuter ==
    /\ prog = ProgramOf(LetProgram("outer", <<"block">>, FALSE))
    /\ ctl = Done(Num(1))
    /\ heap[2].vars["x"] = Num(3)

\* after the call has returned, the name is unbound in the caller
LetGoneAfterCall ==
    /\ prog = ProgramOf(LetProgram("after", <<"else">>, FALSE))
    /\ ctl = Err(UnknownVariable("x"))

=============================================================================
